---------------------------- MODULE Spec2Model ----------------------------
(***************************************************************************)
(* Model of the aprs_agent audio core: the capture and playback stream     *)
(* endpoints (Input, Output, macOSInput, macOSOutput and the generic       *)
(* stubs), the device catalog they consult, and the Manager facade.        *)
(*                                                                         *)
(* Conventions                                                             *)
(*  - float64 gain/volume values are held in tenths: 10 stands for 1.0,    *)
(*    20 for 2.0, -1 for -0.1.  Only comparisons and products with         *)
(*    dyadic values (0.0, 0.5, 1.0, 2.0) are ever evaluated, for which     *)
(*    the scaled integer arithmetic agrees with float64.                   *)
(*  - PCM data is a sequence of bytes 0..255, two bytes per sample,        *)
(*    little endian, exactly as the Go []byte slices.                      *)
(*  - the Go code returns untyped errors built with fmt.Errorf; every      *)
(*    error site is given the name the error taxonomy uses for it.         *)
(***************************************************************************)
EXTENDS Integers, Sequences, FiniteSets, TLC

VARIABLES
    input,      \* the capture endpoint object (NoEndpoint when not constructed)
    output,     \* the playback endpoint object (NoEndpoint when not constructed)
    devices,    \* the device catalog (DeviceManagerInterface implementation)
    pool,       \* caller-owned byte slices handed to PlayAudio, by buffer id
    nextBlock,  \* the pool buffer the producer offers next
    mgr,        \* the Manager object (NoManager when not constructed)
    last,       \* the most recent call: what it returned and, for a driver
                \* callback, what it left in the driver's frame buffer
    threads     \* the calls in flight, by thread, where a call is followed
                \* statement by statement (empty where calls are atomic)

vars == <<input, output, devices, pool, nextBlock, mgr, last, threads>>

-----------------------------------------------------------------------------
(* Bounds of the model *)

\* goroutines of one endpoint that may be alive at once (Start is not taken
\* when it would spawn one more)
MaxTasks == 1
\* number of caller buffers the producer cycles through
NBlocks == 2
\* largest value the processor's clipping counter is followed to (ProcessAudio
\* is not taken when it would count past it)
MaxClips == 2

(* Program constants *)

\* make(chan []byte, 10)
QueueCap == 10
\* gain 1.0: the no-op scalar
Unity == 10
GainMin == 0
GainMax == 20
VolumeMin == 0
VolumeMax == 10
\* the silence floor, -96.0 dB
SilenceFloor == -96
Int16Max == 32767
Int16Min == -32768

-----------------------------------------------------------------------------
(* Errors, named after the taxonomy *)

OK == "ok"
ErrAlreadyRunning == "AlreadyRunning"
ErrDeviceUnavailable == "DeviceUnavailable"
ErrNoDriverContext == "NoDriverContext"
ErrDriverInit == "DriverInitFailed"
ErrDriverStart == "DriverStartFailed"
ErrDeviceAccess == "DeviceAccessFailed"
ErrNotImplemented == "NotImplemented"
ErrNotRunning == "NotRunning"
ErrQueueFull == "QueueFull"
ErrInvalidOperation == "InvalidOperation"
ErrInvalidParameter == "InvalidParameter"
ErrInputNotStarted == "InputNotStarted"
ErrManagerRunning == "ManagerAlreadyRunning"

-----------------------------------------------------------------------------
(* 16-bit PCM helpers *)

Byte == 0..255

\* int16(x): two's complement wrap of an integer to 16 bits
WrapInt16(x) ==
    LET u == x % 65536 IN IF u >= 32768 THEN u - 65536 ELSE u

\* sample := int16(data[j]) | int16(data[j+1])<<8
DecodeSample(lo, hi) == WrapInt16(lo + 256 * hi)

\* byte(s & 0xFF), byte((s >> 8) & 0xFF)
EncodeLo(s) == (s % 65536) % 256
EncodeHi(s) == (s % 65536) \div 256

\* int16(adjusted) for a float64 already clamped to the int16 range:
\* truncation toward zero of num/den
TruncDiv(num, den) ==
    IF num >= 0 THEN num \div den ELSE -((-num) \div den)

\* the product converted to int16 without the clamp
ScaleSample_NoClamp(sample, scalar) == WrapInt16(TruncDiv(sample * scalar, Unity))

\* adjusted := float64(sample) * scalar, clamped to [-32768, 32767], then int16()
ScaleSample(sample, scalar) ==
    LET num == sample * scalar IN
    IF num > Int16Max * Unity THEN Int16Max
    ELSE IF num < Int16Min * Unity THEN Int16Min
    ELSE TruncDiv(num, Unity)

Zeros(n) == [k \in 1..n |-> 0]

\* copy(dst, src): the first min(len) bytes of dst are overwritten
Copy(dst, src) ==
    [k \in 1..Len(dst) |-> IF k <= Len(src) THEN src[k] ELSE dst[k]]

\* the loop  for j := 0; j < len(data); j += 2 { ... data[j+1] ... }
\* indexes out of range (a panic) exactly when len(data) is odd
LoopPanics(data) == Len(data) % 2 = 1

NumSamples(data) == Len(data) \div 2
SampleAt(data, k) == DecodeSample(data[2 * k - 1], data[2 * k])

\* the scaling loop shared by applyGain and applyVolume
ScaleBytes(data, scalar) ==
    [k \in 1..Len(data) |->
        LET s == ScaleSample(SampleAt(data, (k + 1) \div 2), scalar) IN
        IF k % 2 = 1 THEN EncodeLo(s) ELSE EncodeHi(s)]

-----------------------------------------------------------------------------
(* Level snapshot values *)

\* level: 0.0, as set by the constructors and for an empty block
LevelZero == [kind |-> "const", db |-> 0, sum |-> 0, n |-> 0]
\* level: -96.0
LevelFloor == [kind |-> "const", db |-> SilenceFloor, sum |-> 0, n |-> 0]
\* level: 20*log10(sqrt(sum/n)/32767.0)
LevelDb(sum, n) == [kind |-> "rms", db |-> 0, sum |-> sum, n |-> n]
\* the loop ran off the end of an odd-length block
LevelPanic == [kind |-> "panic", db |-> 0, sum |-> 0, n |-> 0]

RECURSIVE SumSquares(_, _)
\* sum += float64(sample * sample): the product is formed in int16
SumSquares(data, k) ==
    IF k = 0 THEN 0
    ELSE SumSquares(data, k - 1)
         + WrapInt16(SampleAt(data, k) * SampleAt(data, k))

\* calculateLevel: math.Sqrt of a negative mean is NaN, and NaN > 0 is false
calculateLevel(data) ==
    IF Len(data) = 0 THEN LevelZero
    ELSE IF LoopPanics(data) THEN LevelPanic
    ELSE LET sum == SumSquares(data, NumSamples(data)) IN
         IF sum > 0 THEN LevelDb(sum, NumSamples(data)) ELSE LevelFloor

-----------------------------------------------------------------------------
(* Device catalog *)

StdRates == {8000, 11025, 16000, 22050, 44100, 48000, 96000}
StdFormats == {"int16", "float32"}

\* DeviceInfo. The malgo catalog lists the channel counts {1, 2, 4, 6, 8} and
\* the macOS catalog {1, 2}; the configurations below use 1, 2 and 3, on
\* which the two agree
DeviceInfo(name, type, isDefault) ==
    [Name |-> name, Type |-> type, SampleRates |-> StdRates,
     Channels |-> {1, 2}, Formats |-> StdFormats, IsDefault |-> isDefault]

NoDevice == DeviceInfo("", "", FALSE)

\* a catalog with a default device in each direction
CatDefault ==
    << DeviceInfo("mic", "input", TRUE), DeviceInfo("spk", "output", TRUE) >>
\* a catalog in which no device is marked default
CatNoDefault ==
    << DeviceInfo("usb", "input", FALSE), DeviceInfo("usb", "output", FALSE) >>

Catalogs == {CatDefault, CatNoDefault}
\* DeviceManager (malgo, owns a driver context) and macOSDeviceManager
ManagerKinds == {"malgo", "macos"}

\* for _, device := range dm.devices { if <match> { return &device, nil } }
\* hits: the indexes of the devices that pass the test; 0 when the loop ends
\* without returning
FirstIndex(hits) ==
    IF hits = {} THEN 0 ELSE CHOOSE k \in hits : \A h \in hits : k <= h

GetDeviceByName(dm, name, deviceType) ==
    LET Match(d) == d.Name = name /\ d.Type = deviceType
        k == FirstIndex({j \in 1..Len(dm.list) : Match(dm.list[j])}) IN
    IF k = 0 THEN [found |-> FALSE, device |-> NoDevice]
    ELSE [found |-> TRUE, device |-> dm.list[k]]

\* DeviceManager.GetDefaultDevice returns an error when no device of the type is
\* marked default; macOSDeviceManager falls back to the first device of the type
GetDefaultDevice(dm, deviceType) ==
    LET IsDef(d) == d.Type = deviceType /\ d.IsDefault
        OfType(d) == d.Type = deviceType
        k == FirstIndex({j \in 1..Len(dm.list) : IsDef(dm.list[j])})
        f == FirstIndex({j \in 1..Len(dm.list) : OfType(dm.list[j])}) IN
    IF k # 0 THEN [found |-> TRUE, device |-> dm.list[k]]
    ELSE IF dm.kind = "macos" /\ f # 0 THEN [found |-> TRUE, device |-> dm.list[f]]
    ELSE [found |-> FALSE, device |-> NoDevice]

IsDeviceSupported(dm, deviceName, deviceType, sampleRate, channels, format) ==
    LET r == GetDeviceByName(dm, deviceName, deviceType) IN
    IF ~r.found THEN FALSE
    ELSE /\ sampleRate \in r.device.SampleRates
         /\ channels \in r.device.Channels
         /\ format \in r.device.Formats

\* GetContext() != nil: only DeviceManager holds a malgo context
HasContext(dm) == dm.kind = "malgo"

-----------------------------------------------------------------------------
(* Configurations *)

DirConfig(name, rate, ch, buf, scalar, fmt) ==
    [DeviceName |-> name, SampleRate |-> rate, Channels |-> ch,
     BufferSize |-> buf, Scalar |-> scalar, Format |-> fmt]

\* Scalar is Audio.Input.Gain in the input section and Audio.Output.Volume in
\* the output section
Config(inp, out) == [Input |-> inp, Output |-> out]

\* default devices, mono, one frame per period
CfgA == Config(DirConfig("", 44100, 1, 1, 10, "int16"),
               DirConfig("", 44100, 1, 1, 10, "int16"))
\* explicitly named devices (absent from CatDefault), stereo, other gain and
\* volume
CfgB == Config(DirConfig("usb", 48000, 2, 1, 20, "int16"),
               DirConfig("usb", 48000, 2, 1, 5, "int16"))
\* a channel count no device advertises
CfgC == Config(DirConfig("", 44100, 3, 1, 10, "int16"),
               DirConfig("", 44100, 3, 1, 10, "int16"))

Configs == {CfgA, CfgB, CfgC}

\* make([]byte, BufferSize*Channels*2)
BufferBytes(dc) == dc.BufferSize * dc.Channels * 2

-----------------------------------------------------------------------------
(* Endpoint objects *)

Variants == {"malgo", "macos", "generic"}
RealVariants == {"malgo", "macos"}

NoEndpoint == [variant |-> "none"]

\* NewInput / newMacOSInput / newGenericInput
NewInput(variant, cfg) ==
    [variant |-> variant, config |-> cfg, isRunning |-> FALSE,
     device |-> FALSE, ctx |-> "nil", tasks |-> 0, handles |-> 0,
     level |-> LevelZero, gain |-> cfg.Input.Scalar,
     buffer |-> Zeros(BufferBytes(cfg.Input)),
     callback |-> FALSE, deviceName |-> ""]

\* NewOutput / newMacOSOutput / newGenericOutput
NewOutput(variant, cfg) ==
    [variant |-> variant, config |-> cfg, isRunning |-> FALSE,
     device |-> FALSE, ctx |-> "nil", tasks |-> 0, handles |-> 0,
     level |-> LevelZero, volume |-> cfg.Output.Scalar,
     buffer |-> Zeros(BufferBytes(cfg.Output)),
     queue |-> <<>>, deviceName |-> ""]

\* what malgo.InitDevice and device.Start may do
DriverOutcomes == {"ok", "initFail", "startFail"}

Ret(ep, err) == [ep |-> ep, err |-> err]

\* context.WithCancel(ctx) followed by go processAudio(): the new context is
\* already done when the caller's context is
Spawn(ep, parentDone) ==
    [ep EXCEPT !.ctx = IF parentDone THEN "done" ELSE "active",
               !.tasks = @ + 1]

\* a cancellation that also stops the endpoint
Cancel_StopsEndpoint(ep) ==
    [ep EXCEPT !.ctx = IF @ = "nil" THEN "nil" ELSE "done",
               !.isRunning = FALSE, !.device = FALSE, !.handles = 0]

\* cancel(): a nil cancel function is skipped
Cancel(ep) == [ep EXCEPT !.ctx = IF @ = "nil" THEN "nil" ELSE "done"]

-----------------------------------------------------------------------------
(* Capture endpoint: Input (malgo), macOSInput, genericInput *)

\* device resolution that ignores the configured name
ResolveDevice_AlwaysDefault(dm, dc, deviceType) ==
    LET d == GetDefaultDevice(dm, deviceType) IN
    [found |-> d.found, name |-> d.device.Name]

\* deviceName := config.DeviceName; if "" then GetDefaultDevice(direction).Name
ResolveDevice(dm, dc, deviceType) ==
    IF dc.DeviceName # "" THEN [found |-> TRUE, name |-> dc.DeviceName]
    ELSE LET d == GetDefaultDevice(dm, deviceType) IN
         [found |-> d.found, name |-> d.device.Name]

Supported(dm, name, dc, deviceType) ==
    IsDeviceSupported(dm, name, deviceType, dc.SampleRate, dc.Channels, dc.Format)

\* Input.Start without the isRunning test of its first lines
InputStart_NoRunningTest(i, dm, drv, parentDone) ==
    LET dc == i.config.Input
        dev == ResolveDevice(dm, dc, "input") IN
    IF ~dev.found THEN Ret(i, ErrDeviceUnavailable)
    ELSE IF ~Supported(dm, dev.name, dc, "input") THEN Ret(i, ErrDeviceUnavailable)
    ELSE IF ~HasContext(dm) THEN Ret(i, ErrNoDriverContext)
    ELSE IF drv = "initFail" THEN Ret(i, ErrDriverInit)
    ELSE IF drv = "startFail" THEN Ret(i, ErrDriverStart)
    ELSE Ret(Spawn([i EXCEPT !.device = TRUE, !.handles = @ + 1,
                              !.isRunning = TRUE], parentDone), OK)

\* Input.Start
InputStart(i, dm, drv, parentDone) ==
    LET dc == i.config.Input
        dev == ResolveDevice(dm, dc, "input") IN
    IF i.isRunning THEN Ret(i, ErrAlreadyRunning)
    ELSE IF ~dev.found THEN Ret(i, ErrDeviceUnavailable)
    ELSE IF ~Supported(dm, dev.name, dc, "input") THEN Ret(i, ErrDeviceUnavailable)
    ELSE IF ~HasContext(dm) THEN Ret(i, ErrNoDriverContext)
    ELSE IF drv = "initFail" THEN Ret(i, ErrDriverInit)
    \* device.Start() failed: device.Uninit() releases the handle again
    ELSE IF drv = "startFail" THEN Ret(i, ErrDriverStart)
    ELSE Ret(Spawn([i EXCEPT !.device = TRUE, !.handles = @ + 1,
                              !.isRunning = TRUE], parentDone), OK)

\* macOSInput.testDeviceAccess
InputTestDeviceAccess(i, dm) == GetDeviceByName(dm, i.deviceName, "input").found

\* macOSInput.Start
macOSInputStart(i, dm, parentDone) ==
    LET dc == i.config.Input
        dev == ResolveDevice(dm, dc, "input")
        named == [i EXCEPT !.deviceName = dev.name] IN
    IF i.isRunning THEN Ret(i, ErrAlreadyRunning)
    ELSE IF ~dev.found THEN Ret(i, ErrDeviceUnavailable)
    ELSE IF ~Supported(dm, dev.name, dc, "input") THEN Ret(named, ErrDeviceUnavailable)
    ELSE IF ~InputTestDeviceAccess(named, dm) THEN Ret(named, ErrDeviceAccess)
    ELSE Ret(Spawn([named EXCEPT !.isRunning = TRUE], parentDone), OK)

\* a stub whose Start succeeds
genericInputStart_Succeeds(i) == Ret([i EXCEPT !.isRunning = TRUE], OK)

\* genericInput.Start
genericInputStart(i) == Ret(i, ErrNotImplemented)

\* Input.Stop
InputStop(i) ==
    IF ~i.isRunning THEN Ret(i, OK)
    ELSE LET c == Cancel(i)
             d == IF c.device
                  THEN [c EXCEPT !.device = FALSE, !.handles = @ - 1]
                  ELSE c IN
         Ret([d EXCEPT !.isRunning = FALSE], OK)

\* macOSInput.Stop
macOSInputStop(i) ==
    IF ~i.isRunning THEN Ret(i, OK)
    ELSE Ret([Cancel(i) EXCEPT !.isRunning = FALSE], OK)

\* genericInput.Stop
genericInputStop(i) == Ret(i, OK)

\* AudioInput.Start, by concrete type
AudioInputStart(i, dm, drv, parentDone) ==
    CASE i.variant = "malgo" -> InputStart(i, dm, drv, parentDone)
      [] i.variant = "macos" -> macOSInputStart(i, dm, parentDone)
      [] OTHER -> genericInputStart(i)

\* AudioInput.Stop, by concrete type
AudioInputStop(i) ==
    CASE i.variant = "malgo" -> InputStop(i)
      [] i.variant = "macos" -> macOSInputStop(i)
      [] OTHER -> genericInputStop(i)

\* Input.Close / macOSInput.Close: return i.Stop(); genericInput.Close: nil
AudioInputClose(i) == AudioInputStop(i)

\* SetGain with a strict upper bound
InputSetGain_Strict(i, gain) ==
    IF i.variant = "generic" THEN Ret(i, OK)
    ELSE IF gain < GainMin \/ gain >= GainMax THEN Ret(i, ErrInvalidParameter)
    ELSE Ret([i EXCEPT !.gain = gain], OK)

\* Input.SetGain / macOSInput.SetGain; genericInput.SetGain returns nil
InputSetGain(i, gain) ==
    IF i.variant = "generic" THEN Ret(i, OK)
    ELSE IF gain < GainMin \/ gain > GainMax THEN Ret(i, ErrInvalidParameter)
    ELSE Ret([i EXCEPT !.gain = gain], OK)

\* GetGain: genericInput returns 1.0
InputGetGain(i) == IF i.variant = "generic" THEN Unity ELSE i.gain

\* Input.SetCallback / macOSInput.SetCallback; genericInput.SetCallback is empty
InputSetCallback(i, cb) ==
    IF i.variant = "generic" THEN i ELSE [i EXCEPT !.callback = cb]

\* IsRunning: genericInput returns false
InputIsRunning(i) == IF i.variant = "generic" THEN FALSE ELSE i.isRunning

\* UpdateConfig without i.gain = newConfig.Audio.Input.Gain
InputUpdateConfig_KeepsGain(i, newConfig) ==
    IF i.variant = "generic" THEN Ret(i, OK)
    ELSE IF i.isRunning THEN Ret(i, ErrInvalidOperation)
    ELSE Ret([i EXCEPT !.config = newConfig,
                       !.buffer = Zeros(BufferBytes(newConfig.Input))], OK)

\* Input.UpdateConfig / macOSInput.UpdateConfig; genericInput.UpdateConfig returns nil
InputUpdateConfig(i, newConfig) ==
    IF i.variant = "generic" THEN Ret(i, OK)
    ELSE IF i.isRunning THEN Ret(i, ErrInvalidOperation)
    ELSE Ret([i EXCEPT !.config = newConfig,
                       !.gain = newConfig.Input.Scalar,
                       !.buffer = Zeros(BufferBytes(newConfig.Input))], OK)

\* GetBuffer: genericInput returns nil
InputGetBuffer(i) == IF i.variant = "generic" THEN <<>> ELSE i.buffer

\* GetLevel: genericInput returns 0.0
InputGetLevel(i) == IF i.variant = "generic" THEN LevelZero ELSE i.level

\* Input.applyGain, on the resident buffer
applyGain(i) ==
    IF i.gain = Unity THEN i ELSE [i EXCEPT !.buffer = ScaleBytes(@, i.gain)]

\* a callback that meters and buffers only for a registered consumer
InputDataCallback_NeedsCallback(i, pInputSamples) ==
    IF ~i.isRunning \/ ~i.callback THEN [ep |-> i, forwarded |-> FALSE]
    ELSE LET copied == [i EXCEPT !.buffer = Copy(@, pInputSamples)]
             metered == [copied EXCEPT !.level = calculateLevel(pInputSamples)]
             scaled == IF metered.gain # Unity THEN applyGain(metered) ELSE metered IN
         [ep |-> scaled, forwarded |-> TRUE]

\* Input.dataCallback(_, pInputSamples, frameCount): the result says whether
\* the consumer callback was invoked
InputDataCallback(i, pInputSamples) ==
    IF ~i.isRunning THEN [ep |-> i, forwarded |-> FALSE]
    ELSE LET copied == [i EXCEPT !.buffer = Copy(@, pInputSamples)]
             metered == [copied EXCEPT !.level = calculateLevel(pInputSamples)]
             scaled == IF metered.gain # Unity THEN applyGain(metered) ELSE metered IN
         [ep |-> scaled, forwarded |-> scaled.callback]

\* the values math.Sin takes in the synthetic source, as multiples of full scale
SineValues == {0, 1}

\* sampleInt := int16(sample * 32767) with sample = sin(..) * gain; a product
\* beyond the int16 range is converted through a wider integer and narrowed
SimSample(sine, gain) == WrapInt16(TruncDiv(sine * gain * Int16Max, Unity))

\* macOSInput.simulateAudioData: the result says whether the consumer callback
\* was invoked
simulateAudioData(i, sine) ==
    LET dc == i.config.Input
        s == SimSample(sine, i.gain)
        written == [k \in 1..Len(i.buffer) |->
                       IF (k + 1) \div 2 <= dc.BufferSize * dc.Channels
                          /\ 2 * ((k + 1) \div 2) <= Len(i.buffer)
                       THEN IF k % 2 = 1 THEN EncodeLo(s) ELSE EncodeHi(s)
                       ELSE i.buffer[k]]
        filled == [i EXCEPT !.buffer = written]
        metered == [filled EXCEPT !.level = calculateLevel(written)] IN
    [ep |-> metered, forwarded |-> metered.callback]

-----------------------------------------------------------------------------
(* Playback endpoint: Output (malgo), macOSOutput, genericOutput *)

\* Output.Start
OutputStart(o, dm, drv, parentDone) ==
    LET dc == o.config.Output
        dev == ResolveDevice(dm, dc, "output") IN
    IF o.isRunning THEN Ret(o, ErrAlreadyRunning)
    ELSE IF ~dev.found THEN Ret(o, ErrDeviceUnavailable)
    ELSE IF ~Supported(dm, dev.name, dc, "output") THEN Ret(o, ErrDeviceUnavailable)
    ELSE IF ~HasContext(dm) THEN Ret(o, ErrNoDriverContext)
    ELSE IF drv = "initFail" THEN Ret(o, ErrDriverInit)
    ELSE IF drv = "startFail" THEN Ret(o, ErrDriverStart)
    ELSE Ret(Spawn([o EXCEPT !.device = TRUE, !.handles = @ + 1,
                              !.isRunning = TRUE], parentDone), OK)

\* macOSOutput.testDeviceAccess
OutputTestDeviceAccess(o, dm) == GetDeviceByName(dm, o.deviceName, "output").found

\* macOSOutput.Start
macOSOutputStart(o, dm, parentDone) ==
    LET dc == o.config.Output
        dev == ResolveDevice(dm, dc, "output")
        named == [o EXCEPT !.deviceName = dev.name] IN
    IF o.isRunning THEN Ret(o, ErrAlreadyRunning)
    ELSE IF ~dev.found THEN Ret(o, ErrDeviceUnavailable)
    ELSE IF ~Supported(dm, dev.name, dc, "output") THEN Ret(named, ErrDeviceUnavailable)
    ELSE IF ~OutputTestDeviceAccess(named, dm) THEN Ret(named, ErrDeviceAccess)
    ELSE Ret(Spawn([named EXCEPT !.isRunning = TRUE], parentDone), OK)

\* genericOutput.Start
genericOutputStart(o) == Ret(o, ErrNotImplemented)

\* Output.Stop without the final o.isRunning = false
OutputStop_KeepsRunning(o) ==
    IF ~o.isRunning THEN Ret(o, OK)
    ELSE LET c == Cancel(o) IN
         Ret(IF c.device THEN [c EXCEPT !.device = FALSE, !.handles = @ - 1] ELSE c, OK)

\* Output.Stop
OutputStop(o) ==
    IF ~o.isRunning THEN Ret(o, OK)
    ELSE LET c == Cancel(o)
             d == IF c.device
                  THEN [c EXCEPT !.device = FALSE, !.handles = @ - 1]
                  ELSE c IN
         Ret([d EXCEPT !.isRunning = FALSE], OK)

\* macOSOutput.Stop
macOSOutputStop(o) ==
    IF ~o.isRunning THEN Ret(o, OK)
    ELSE Ret([Cancel(o) EXCEPT !.isRunning = FALSE], OK)

\* genericOutput.Stop
genericOutputStop(o) == Ret(o, OK)

\* AudioOutput.Start, by concrete type
AudioOutputStart(o, dm, drv, parentDone) ==
    CASE o.variant = "malgo" -> OutputStart(o, dm, drv, parentDone)
      [] o.variant = "macos" -> macOSOutputStart(o, dm, parentDone)
      [] OTHER -> genericOutputStart(o)

\* AudioOutput.Stop, by concrete type
AudioOutputStop(o) ==
    CASE o.variant = "malgo" -> OutputStop(o)
      [] o.variant = "macos" -> macOSOutputStop(o)
      [] OTHER -> genericOutputStop(o)

\* Output.Close / macOSOutput.Close: return o.Stop(); genericOutput.Close: nil
AudioOutputClose(o) == AudioOutputStop(o)

\* PlayAudio on a channel of capacity QueueCap + 1
OutputPlayAudio_OneMore(o, data) ==
    IF ~o.isRunning THEN Ret(o, ErrNotRunning)
    ELSE IF Len(o.queue) <= QueueCap THEN Ret([o EXCEPT !.queue = Append(@, data)], OK)
    ELSE Ret(o, ErrQueueFull)

\* Output.PlayAudio / macOSOutput.PlayAudio: a non-blocking send of the slice
\* (a reference to the caller's buffer) on the channel
OutputPlayAudio(o, data) ==
    IF ~o.isRunning THEN Ret(o, ErrNotRunning)
    ELSE IF Len(o.queue) < QueueCap THEN Ret([o EXCEPT !.queue = Append(@, data)], OK)
    ELSE Ret(o, ErrQueueFull)

\* genericOutput.PlayAudio
genericOutputPlayAudio(o, data) == Ret(o, OK)

\* AudioOutput.PlayAudio, by concrete type
AudioOutputPlayAudio(o, data) ==
    IF o.variant = "generic" THEN genericOutputPlayAudio(o, data)
    ELSE OutputPlayAudio(o, data)

\* Output.SetVolume / macOSOutput.SetVolume; genericOutput.SetVolume returns nil
OutputSetVolume(o, volume) ==
    IF o.variant = "generic" THEN Ret(o, OK)
    ELSE IF volume < VolumeMin \/ volume > VolumeMax THEN Ret(o, ErrInvalidParameter)
    ELSE Ret([o EXCEPT !.volume = volume], OK)

\* GetVolume: genericOutput returns 1.0
OutputGetVolume(o) == IF o.variant = "generic" THEN Unity ELSE o.volume

\* IsRunning: genericOutput returns false
OutputIsRunning(o) == IF o.variant = "generic" THEN FALSE ELSE o.isRunning

\* UpdateConfig without the isRunning test
OutputUpdateConfig_NoRunningTest(o, newConfig) ==
    IF o.variant = "generic" THEN Ret(o, OK)
    ELSE Ret([o EXCEPT !.config = newConfig,
                       !.volume = newConfig.Output.Scalar,
                       !.buffer = Zeros(BufferBytes(newConfig.Output))], OK)

\* Output.UpdateConfig / macOSOutput.UpdateConfig; genericOutput.UpdateConfig returns nil
OutputUpdateConfig(o, newConfig) ==
    IF o.variant = "generic" THEN Ret(o, OK)
    ELSE IF o.isRunning THEN Ret(o, ErrInvalidOperation)
    ELSE Ret([o EXCEPT !.config = newConfig,
                       !.volume = newConfig.Output.Scalar,
                       !.buffer = Zeros(BufferBytes(newConfig.Output))], OK)

\* GetBuffer: genericOutput returns nil
OutputGetBuffer(o) == IF o.variant = "generic" THEN <<>> ELSE o.buffer

\* GetLevel: genericOutput returns 0.0
OutputGetLevel(o) == IF o.variant = "generic" THEN LevelZero ELSE o.level

\* GetQueueSize: len(o.queue); genericOutput returns 0
OutputGetQueueSize(o) == IF o.variant = "generic" THEN 0 ELSE Len(o.queue)

\* ClearQueue: for len(o.queue) > 0 { <-o.queue }; genericOutput.ClearQueue is empty
OutputClearQueue(o) ==
    IF o.variant = "generic" THEN o ELSE [o EXCEPT !.queue = <<>>]

\* Output.applyVolume(data): scales the dequeued slice in place
applyVolume(o, data) == ScaleBytes(data, o.volume)

\* dataCallback that reads the head of the queue without receiving from it
OutputDataCallback_Peek(o, heap, pOutputSample) ==
    IF ~o.isRunning
    THEN [ep |-> o, heap |-> heap, out |-> pOutputSample, took |-> FALSE]
    ELSE IF Len(o.queue) > 0
    THEN LET id == Head(o.queue)
             data == IF o.volume # Unity THEN applyVolume(o, heap[id]) ELSE heap[id] IN
         [ep |-> [o EXCEPT !.level = calculateLevel(data)],
          heap |-> [heap EXCEPT ![id] = data],
          out |-> Copy(pOutputSample, data),
          took |-> TRUE]
    ELSE [ep |-> [o EXCEPT !.level = LevelFloor],
          heap |-> heap,
          out |-> Zeros(Len(pOutputSample)),
          took |-> FALSE]

\* Output.dataCallback(pOutputSample, _, frameCount): the new endpoint, the
\* pool of caller buffers (the dequeued slice is scaled in place) and the
\* driver's frame buffer
OutputDataCallback(o, heap, pOutputSample) ==
    IF ~o.isRunning
    THEN [ep |-> o, heap |-> heap, out |-> pOutputSample, took |-> FALSE]
    ELSE IF Len(o.queue) > 0
    THEN LET id == Head(o.queue)
             data == IF o.volume # Unity THEN applyVolume(o, heap[id]) ELSE heap[id] IN
         [ep |-> [o EXCEPT !.queue = Tail(@), !.level = calculateLevel(data)],
          heap |-> [heap EXCEPT ![id] = data],
          out |-> Copy(pOutputSample, data),
          took |-> TRUE]
    ELSE [ep |-> [o EXCEPT !.level = LevelFloor],
          heap |-> heap,
          out |-> Zeros(Len(pOutputSample)),
          took |-> FALSE]

-----------------------------------------------------------------------------
(* APRS processor: level measurement, noise gate, compressor, limiter *)
(*                                                                     *)
(* Thresholds are float64 decibel values; their linear equivalents      *)
(* math.Pow(10, dB/20.0) * 32767.0 are held in hundredths of a sample   *)
(* step, rounded down.  A compression ratio is held in tenths.  Samples *)
(* are integers, so every comparison of a sample with a threshold and   *)
(* every truncation evaluated here agrees with float64: no value that   *)
(* is compared or truncated lies within 0.002 of an integer unless it   *)
(* is exactly that integer.                                             *)

Abs(x) == IF x < 0 THEN -x ELSE x

\* math.Pow(10, db/20.0) * 32767.0, in hundredths:
\* 327.67, 3276.70, 23197.2595..., 32767.00
Linear(db) ==
    CASE db = -40 -> 32767
      [] db = -20 -> 327670
      [] db = -3 -> 2319725
      [] db = 0 -> 3276700

\* peakLevel: 20*log10(peak/32767.0)
LevelPeak(peak) == [kind |-> "peak", db |-> 0, sum |-> peak, n |-> 1]

\* NewAPRSProcessor: peakLevel, rmsLevel and clippingCount are zero values
NewAPRSProcessor ==
    [noiseGateThreshold |-> -40,
     compressionRatio |-> 40,
     peakThreshold |-> -3,
     isNoiseGateEnabled |-> TRUE,
     isCompressorEnabled |-> TRUE,
     isLimiterEnabled |-> TRUE,
     peakLevel |-> LevelZero,
     rmsLevel |-> LevelZero,
     clippingCount |-> 0]

RECURSIVE DecodeSamples(_)
\* the samples of an even-length block, in order
DecodeSamples(data) ==
    IF Len(data) = 0 THEN <<>>
    ELSE <<DecodeSample(data[1], data[2])>> \o DecodeSamples(Tail(Tail(data)))

RECURSIVE EncodeSamples(_)
\* the block holding a sequence of samples, low byte first
EncodeSamples(samples) ==
    IF Len(samples) = 0 THEN <<>>
    ELSE <<EncodeLo(Head(samples)), EncodeHi(Head(samples))>>
             \o EncodeSamples(Tail(samples))

RECURSIVE SumAbsSquares(_, _)
\* sum += sampleAbs * sampleAbs, formed in float64 (exact below 2^53)
SumAbsSquares(samples, k) ==
    IF k = 0 THEN 0
    ELSE SumAbsSquares(samples, k - 1) + Abs(samples[k]) * Abs(samples[k])

RECURSIVE PeakAbs(_, _)
\* if sampleAbs > peak { peak = sampleAbs }
PeakAbs(samples, k) ==
    IF k = 0 THEN 0
    ELSE LET p == PeakAbs(samples, k - 1) IN
         IF Abs(samples[k]) > p THEN Abs(samples[k]) ELSE p

\* calculateLevels, for a block the loop does not run off the end of
calculateLevels(ap, data) ==
    IF Len(data) = 0
    THEN [ap EXCEPT !.peakLevel = LevelFloor, !.rmsLevel = LevelFloor]
    ELSE LET samples == DecodeSamples(data)
             sum == SumAbsSquares(samples, Len(samples))
             peak == PeakAbs(samples, Len(samples)) IN
         [ap EXCEPT
            !.rmsLevel = IF sum > 0 THEN LevelDb(sum, Len(samples)) ELSE LevelFloor,
            !.peakLevel = IF peak > 0 THEN LevelPeak(peak) ELSE LevelFloor]

\* a gate that also silences a sample exactly at the threshold
GateSample_AtOrBelow(ap, s) ==
    IF Abs(s) * 100 <= Linear(ap.noiseGateThreshold) THEN 0 ELSE s

\* applyNoiseGate on one sample: if sampleAbs < threshold, both bytes are zeroed
GateSample(ap, s) ==
    IF Abs(s) * 100 < Linear(ap.noiseGateThreshold) THEN 0 ELSE s

applyNoiseGate(ap, data) ==
    EncodeSamples([k \in 1..NumSamples(data) |-> GateSample(ap, SampleAt(data, k))])

\* a knee raised to the default limiter ceiling
CompressorKnee_AtCeiling == Linear(-3)

\* threshold := math.Pow(10, -20.0/20.0) * 32767.0
CompressorKnee == Linear(-20)

\* a compressor that leaves every sample as it is
CompressSample_NoRatio(ap, s) == s

\* applyCompressor on one sample: above the knee the excess is divided by the
\* ratio, the sign restored, the value clamped and converted with int16()
CompressSample(ap, s) ==
    IF Abs(s) * 100 > CompressorKnee
    THEN LET den == ap.compressionRatio * 100
             mag == CompressorKnee * ap.compressionRatio
                        + (Abs(s) * 100 - CompressorKnee) * 10
             num == IF s > 0 THEN mag ELSE -mag IN
         IF num > Int16Max * den THEN Int16Max
         ELSE IF num < Int16Min * den THEN Int16Min
         ELSE TruncDiv(num, den)
    ELSE s

applyCompressor(ap, data) ==
    EncodeSamples([k \in 1..NumSamples(data) |-> CompressSample(ap, SampleAt(data, k))])

\* a limiter that rounds the ceiling up instead of truncating it
LimitSample_RoundsUp(ap, s) ==
    IF Abs(s) * 100 > Linear(ap.peakThreshold)
    THEN IF s > 0 THEN WrapInt16(Linear(ap.peakThreshold) \div 100 + 1)
                  ELSE WrapInt16(-WrapInt16(Linear(ap.peakThreshold) \div 100 + 1))
    ELSE s

\* applyLimiter on one sample: above the ceiling it becomes int16(threshold)
\* or -int16(threshold)
LimitSample(ap, s) ==
    IF Abs(s) * 100 > Linear(ap.peakThreshold)
    THEN IF s > 0 THEN WrapInt16(Linear(ap.peakThreshold) \div 100)
                  ELSE WrapInt16(-WrapInt16(Linear(ap.peakThreshold) \div 100))
    ELSE s

RECURSIVE CountOver(_, _, _)
\* the samples of a block for which sampleAbs > threshold
CountOver(samples, k, threshold) ==
    IF k = 0 THEN 0
    ELSE CountOver(samples, k - 1, threshold)
         + (IF Abs(samples[k]) * 100 > threshold THEN 1 ELSE 0)

\* applyLimiter that clips without counting
applyLimiter_NoCount(ap, data) ==
    [ap |-> ap,
     data |-> EncodeSamples([k \in 1..NumSamples(data) |->
                                LimitSample(ap, SampleAt(data, k))])]

\* applyLimiter: ap.clippingCount++ for every sample it clips
applyLimiter(ap, data) ==
    [ap |-> [ap EXCEPT !.clippingCount =
                @ + CountOver(DecodeSamples(data), NumSamples(data),
                              Linear(ap.peakThreshold))],
     data |-> EncodeSamples([k \in 1..NumSamples(data) |->
                                LimitSample(ap, SampleAt(data, k))])]

\* a run-time panic: index out of range
Panic == "panic"

\* the outcome of ProcessAudio: the processor, the caller's block, the block
\* returned (none when the call panicked) and whether it panicked
PRet(ap, in, out, err) == [ap |-> ap, input |-> in, output |-> out, err |-> err]

\* ProcessAudio with the limiter ahead of the compressor
ProcessAudio_LimiterFirst(ap, in) ==
    IF LoopPanics(in) THEN PRet(ap, in, <<>>, Panic)
    ELSE LET copied == Copy(Zeros(Len(in)), in)
             ap1 == calculateLevels(ap, copied)
             gated == IF ap1.isNoiseGateEnabled
                      THEN applyNoiseGate(ap1, copied) ELSE copied
             limited == IF ap1.isLimiterEnabled
                        THEN applyLimiter(ap1, gated)
                        ELSE [ap |-> ap1, data |-> gated]
             compressed == IF ap1.isCompressorEnabled
                           THEN applyCompressor(ap1, limited.data) ELSE limited.data IN
         PRet(limited.ap, in, compressed, OK)

\* ProcessAudio: the block is copied, measured, and run through the enabled
\* stages in the order gate, compressor, limiter.  On an odd-length block
\* calculateLevels indexes data[len(data)] before it has assigned anything;
\* the deferred Unlock runs and the panic reaches the caller.
ProcessAudio(ap, in) ==
    IF LoopPanics(in) THEN PRet(ap, in, <<>>, Panic)
    ELSE LET copied == Copy(Zeros(Len(in)), in)
             ap1 == calculateLevels(ap, copied)
             gated == IF ap1.isNoiseGateEnabled
                      THEN applyNoiseGate(ap1, copied) ELSE copied
             compressed == IF ap1.isCompressorEnabled
                           THEN applyCompressor(ap1, gated) ELSE gated
             limited == IF ap1.isLimiterEnabled
                        THEN applyLimiter(ap1, compressed)
                        ELSE [ap |-> ap1, data |-> compressed] IN
         PRet(limited.ap, in, limited.data, OK)

\* SetNoiseGateThreshold, SetCompressionRatio, SetPeakThreshold: no validation
SetNoiseGateThreshold(ap, threshold) == [ap EXCEPT !.noiseGateThreshold = threshold]
SetCompressionRatio(ap, ratio) == [ap EXCEPT !.compressionRatio = ratio]
SetPeakThreshold(ap, threshold) == [ap EXCEPT !.peakThreshold = threshold]

\* EnableNoiseGate, EnableCompressor, EnableLimiter
EnableNoiseGate(ap, enabled) == [ap EXCEPT !.isNoiseGateEnabled = enabled]
EnableCompressor(ap, enabled) == [ap EXCEPT !.isCompressorEnabled = enabled]
EnableLimiter(ap, enabled) == [ap EXCEPT !.isLimiterEnabled = enabled]

\* ResetClippingCount that also clears the levels
ResetClippingCount_ClearsLevels(ap) ==
    [ap EXCEPT !.clippingCount = 0, !.peakLevel = LevelFloor, !.rmsLevel = LevelFloor]

\* ResetClippingCount
ResetClippingCount(ap) == [ap EXCEPT !.clippingCount = 0]

\* GetPeakLevel, GetRMSLevel, GetClippingCount
GetPeakLevel(ap) == ap.peakLevel
GetRMSLevel(ap) == ap.rmsLevel
GetClippingCount(ap) == ap.clippingCount

-----------------------------------------------------------------------------
(* Manager *)

NoManager == [present |-> FALSE]

\* the endpoint types NewManager selects by runtime.GOOS, and the device
\* manager NewDeviceManager returns there
Platforms == {"darwin", "other"}
VariantOn(platform) == IF platform = "darwin" THEN "macos" ELSE "malgo"
ManagerKindOn(platform) == IF platform = "darwin" THEN "macos" ELSE "malgo"

\* NewManager
NewManager(cfg) ==
    [present |-> TRUE, config |-> cfg, isRunning |-> FALSE,
     aprsProcessor |-> NewAPRSProcessor]

\* DeviceManager.Close: context.Uninit(); macOSDeviceManager.Close: nothing
DevicesClose(dm) == IF dm.kind = "malgo" THEN [dm EXCEPT !.closed = TRUE] ELSE dm

\* the result of a Manager method: the objects it leaves, its error, and the
\* methods of its components it invoked, in order (Stop and Close only)
MRet(m, i, o, dm, err) ==
    [mgr |-> m, input |-> i, output |-> o, devices |-> dm, err |-> err,
     calls |-> <<>>]

\* StartInput that sets m.isRunning whether or not m.input.Start succeeded
ManagerStartInput_FlagAlways(m, i, o, dm, drv, parentDone) ==
    IF m.isRunning THEN MRet(m, i, o, dm, ErrManagerRunning)
    ELSE LET r == AudioInputStart(i, dm, drv, parentDone) IN
         MRet([m EXCEPT !.isRunning = TRUE], r.ep, o, dm, r.err)

\* Manager.StartInput
ManagerStartInput(m, i, o, dm, drv, parentDone) ==
    IF m.isRunning THEN MRet(m, i, o, dm, ErrManagerRunning)
    ELSE LET r == AudioInputStart(i, dm, drv, parentDone) IN
         IF r.err # OK THEN MRet(m, r.ep, o, dm, r.err)
         ELSE MRet([m EXCEPT !.isRunning = TRUE], r.ep, o, dm, OK)

\* StartOutput without the m.isRunning test
ManagerStartOutput_NoInputTest(m, i, o, dm, drv, parentDone) ==
    LET r == AudioOutputStart(o, dm, drv, parentDone) IN
    MRet(m, i, r.ep, dm, r.err)

\* Manager.StartOutput
ManagerStartOutput(m, i, o, dm, drv, parentDone) ==
    IF ~m.isRunning THEN MRet(m, i, o, dm, ErrInputNotStarted)
    ELSE LET r == AudioOutputStart(o, dm, drv, parentDone) IN
         MRet(m, i, r.ep, dm, r.err)

\* Manager.Stop that returns after m.input.Stop()
ManagerStop_InputOnly(m, i, o, dm) ==
    IF ~m.isRunning THEN MRet(m, i, o, dm, OK)
    ELSE [MRet([m EXCEPT !.isRunning = FALSE], AudioInputStop(i).ep, o, dm, OK)
            EXCEPT !.calls = <<"input.Stop">>]

\* Manager.Stop: errors of the endpoints' Stop are logged, not returned
ManagerStop(m, i, o, dm) ==
    IF ~m.isRunning THEN MRet(m, i, o, dm, OK)
    ELSE [MRet([m EXCEPT !.isRunning = FALSE],
               AudioInputStop(i).ep, AudioOutputStop(o).ep, dm, OK)
            EXCEPT !.calls = <<"input.Stop", "output.Stop">>]

\* Manager.Close without the leading m.Stop()
ManagerClose_NoStop(m, i, o, dm) ==
    [MRet(m, AudioInputClose(i).ep, AudioOutputClose(o).ep, DevicesClose(dm), OK)
        EXCEPT !.calls = <<"cancel", "input.Close", "output.Close", "devices.Close">>]

\* Manager.Close: m.Stop(), m.cancel(), then Close of the input, the output
\* and the device manager; their errors are logged, not returned
ManagerClose(m, i, o, dm) ==
    LET s == ManagerStop(m, i, o, dm) IN
    [MRet(s.mgr, AudioInputClose(s.input).ep, AudioOutputClose(s.output).ep,
          DevicesClose(dm), OK)
        EXCEPT !.calls = s.calls \o <<"cancel", "input.Close", "output.Close",
                                     "devices.Close">>]

\* UpdateConfig without the m.isRunning test: the config is stored before the
\* endpoints are asked
ManagerUpdateConfig_NoRunningTest(m, i, o, dm, newConfig) ==
    LET m1 == [m EXCEPT !.config = newConfig]
        ri == InputUpdateConfig(i, newConfig) IN
    IF ri.err # OK THEN MRet(m1, ri.ep, o, dm, ri.err)
    ELSE LET ro == OutputUpdateConfig(o, newConfig) IN
         MRet(m1, ri.ep, ro.ep, dm, ro.err)

\* Manager.UpdateConfig
ManagerUpdateConfig(m, i, o, dm, newConfig) ==
    IF m.isRunning THEN MRet(m, i, o, dm, ErrInvalidOperation)
    ELSE LET m1 == [m EXCEPT !.config = newConfig]
             ri == InputUpdateConfig(i, newConfig) IN
         IF ri.err # OK THEN MRet(m1, ri.ep, o, dm, ri.err)
         ELSE LET ro == OutputUpdateConfig(o, newConfig) IN
              MRet(m1, ri.ep, ro.ep, dm, ro.err)

\* Manager.SetInputGain
ManagerSetInputGain(i, gain) == InputSetGain(i, gain)

\* Manager.SetOutputVolume
ManagerSetOutputVolume(o, volume) == OutputSetVolume(o, volume)

-----------------------------------------------------------------------------
(* Inputs of the calls *)

\* -0.1, 0.0, 2.0, 2.1
GainArgs == {-1, GainMin, GainMax, GainMax + 1}
\* -0.1, 0.0, 1.0, 1.1
VolumeArgs == {-1, VolumeMin, VolumeMax, VolumeMax + 1}
\* the samples the capture driver delivers (every sample of a period alike)
CaptureSamples == {0, 2}
\* what the playback driver's frame buffer holds on entry to the callback
StaleBytes == {255}

\* a period of n bytes in which every sample is s
UniformBlock(n, s) == [k \in 1..n |-> IF k % 2 = 1 THEN EncodeLo(s) ELSE EncodeHi(s)]

\* the caller's buffers: odd ids hold one sample of value 2, even ids silence
PoolInit == [id \in 1..NBlocks |-> IF id % 2 = 1 THEN <<2, 0>> ELSE <<0, 0>>]

\* out: the bytes a driver callback handed on (to the playback driver's frame
\* buffer, or to the capture consumer); for Manager.Stop and Manager.Close the
\* component methods invoked, in order; for ProcessAudio the caller's block
\* and the block returned; empty for every other call
Call(op, dir, err, out) == [op |-> op, dir |-> dir, err |-> err, out |-> out]

HasInput == input.variant # "none"
HasOutput == output.variant # "none"

\* goroutines whose context is done and that have not yet returned
Zombies(ep) == ep.tasks - (IF ep.ctx = "active" THEN 1 ELSE 0)

-----------------------------------------------------------------------------
(* Actions on the capture endpoint *)

DoInputStart ==
    /\ HasInput
    /\ \E drv \in DriverOutcomes, parentDone \in BOOLEAN :
         LET r == AudioInputStart(input, devices, drv, parentDone) IN
         /\ r.err # OK \/ input.tasks < MaxTasks
         /\ input' = r.ep
         /\ last' = Call("Start", "input", r.err, <<>>)
    /\ UNCHANGED <<output, devices, pool, nextBlock, mgr, threads>>

DoInputStop ==
    /\ HasInput
    /\ LET r == AudioInputStop(input) IN
         /\ input' = r.ep
         /\ last' = Call("Stop", "input", r.err, <<>>)
    /\ UNCHANGED <<output, devices, pool, nextBlock, mgr, threads>>

DoInputClose ==
    /\ HasInput
    /\ LET r == AudioInputClose(input) IN
         /\ input' = r.ep
         /\ last' = Call("Close", "input", r.err, <<>>)
    /\ UNCHANGED <<output, devices, pool, nextBlock, mgr, threads>>

InputSetGainStep(gain) ==
    /\ HasInput
    /\ LET r == InputSetGain(input, gain) IN
         /\ input' = r.ep
         /\ last' = Call("SetGain", "input", r.err, <<>>)
    /\ UNCHANGED <<output, devices, pool, nextBlock, mgr, threads>>

DoInputSetGain == \E gain \in GainArgs : InputSetGainStep(gain)

DoInputSetCallback ==
    /\ HasInput
    /\ \E cb \in BOOLEAN :
         /\ input' = InputSetCallback(input, cb)
         /\ last' = Call("SetCallback", "input", OK, <<>>)
    /\ UNCHANGED <<output, devices, pool, nextBlock, mgr, threads>>

InputUpdateConfigStep(newConfig) ==
    /\ HasInput
    /\ LET r == InputUpdateConfig(input, newConfig) IN
         /\ input' = r.ep
         /\ last' = Call("UpdateConfig", "input", r.err, <<>>)
    /\ UNCHANGED <<output, devices, pool, nextBlock, mgr, threads>>

DoInputUpdateConfig == \E newConfig \in Configs : InputUpdateConfigStep(newConfig)

\* the capture driver delivers one period.  The driver is started inside
\* Start before the running flag is set, so the callback also runs with the
\* flag still false.
CaptureFrames ==
    /\ HasInput /\ input.variant = "malgo"
    /\ \E s \in CaptureSamples :
         LET r == InputDataCallback(input, UniformBlock(Len(input.buffer), s)) IN
         /\ input' = r.ep
         /\ last' = Call("dataCallback", "input", OK,
                         IF r.forwarded THEN r.ep.buffer ELSE <<>>)
    /\ UNCHANGED <<output, devices, pool, nextBlock, mgr, threads>>

\* processAudio takes the ticker case.  select chooses among the ready cases
\* at random, so a goroutine whose context is already done may still take it.
InputTaskTick ==
    /\ HasInput /\ input.tasks > 0
    /\ IF input.variant = "macos"
       THEN \E sine \in SineValues :
              LET r == simulateAudioData(input, sine) IN
              /\ input' = r.ep
              /\ last' = Call("simulateAudioData", "input", OK,
                           IF r.forwarded THEN r.ep.buffer ELSE <<>>)
       ELSE UNCHANGED <<input, last, threads>>
    /\ UNCHANGED <<output, devices, pool, nextBlock, mgr, threads>>

\* processAudio takes the ctx.Done() case and returns
InputTaskExit ==
    /\ HasInput /\ Zombies(input) > 0
    /\ input' = [input EXCEPT !.tasks = @ - 1]
    /\ UNCHANGED <<output, devices, pool, nextBlock, mgr, last, threads>>

\* the caller cancels the context it passed to Start
InputCancelCtx ==
    /\ HasInput /\ input.ctx = "active"
    /\ input' = Cancel(input)
    /\ UNCHANGED <<output, devices, pool, nextBlock, mgr, last, threads>>

InputNext ==
    \/ DoInputStart \/ DoInputStop \/ DoInputClose \/ DoInputSetGain
    \/ DoInputSetCallback \/ DoInputUpdateConfig \/ CaptureFrames
    \/ InputTaskTick \/ InputTaskExit \/ InputCancelCtx

-----------------------------------------------------------------------------
(* Actions on the playback endpoint *)

DoOutputStart ==
    /\ HasOutput
    /\ \E drv \in DriverOutcomes, parentDone \in BOOLEAN :
         LET r == AudioOutputStart(output, devices, drv, parentDone) IN
         /\ r.err # OK \/ output.tasks < MaxTasks
         /\ output' = r.ep
         /\ last' = Call("Start", "output", r.err, <<>>)
    /\ UNCHANGED <<input, devices, pool, nextBlock, mgr, threads>>

DoOutputStop ==
    /\ HasOutput
    /\ LET r == AudioOutputStop(output) IN
         /\ output' = r.ep
         /\ last' = Call("Stop", "output", r.err, <<>>)
    /\ UNCHANGED <<input, devices, pool, nextBlock, mgr, threads>>

DoOutputClose ==
    /\ HasOutput
    /\ LET r == AudioOutputClose(output) IN
         /\ output' = r.ep
         /\ last' = Call("Close", "output", r.err, <<>>)
    /\ UNCHANGED <<input, devices, pool, nextBlock, mgr, threads>>

\* the producer offers the next buffer of its pool and moves on to the
\* following one once the offer is accepted
DoPlayAudio ==
    /\ HasOutput
    /\ LET r == AudioOutputPlayAudio(output, nextBlock) IN
         /\ output' = r.ep
         /\ nextBlock' = IF r.err = OK THEN (nextBlock % NBlocks) + 1 ELSE nextBlock
         /\ last' = Call("PlayAudio", "output", r.err, <<>>)
    /\ UNCHANGED <<input, devices, pool, mgr, threads>>

OutputSetVolumeStep(volume) ==
    /\ HasOutput
    /\ LET r == OutputSetVolume(output, volume) IN
         /\ output' = r.ep
         /\ last' = Call("SetVolume", "output", r.err, <<>>)
    /\ UNCHANGED <<input, devices, pool, nextBlock, mgr, threads>>

DoOutputSetVolume == \E volume \in VolumeArgs : OutputSetVolumeStep(volume)

OutputUpdateConfigStep(newConfig) ==
    /\ HasOutput
    /\ LET r == OutputUpdateConfig(output, newConfig) IN
         /\ output' = r.ep
         /\ last' = Call("UpdateConfig", "output", r.err, <<>>)
    /\ UNCHANGED <<input, devices, pool, nextBlock, mgr, threads>>

DoOutputUpdateConfig == \E newConfig \in Configs : OutputUpdateConfigStep(newConfig)

DoClearQueue ==
    /\ HasOutput
    /\ output' = OutputClearQueue(output)
    /\ last' = Call("ClearQueue", "output", OK, <<>>)
    /\ UNCHANGED <<input, devices, pool, nextBlock, mgr, threads>>

\* the playback driver asks for one period; its frame buffer has the length
\* of the configured period and arbitrary content on entry
RequestFrames ==
    /\ HasOutput /\ output.variant = "malgo"
    /\ \E fill \in StaleBytes :
         LET n == BufferBytes(output.config.Output)
             r == OutputDataCallback(output, pool, [k \in 1..n |-> fill]) IN
         /\ output' = r.ep
         /\ pool' = r.heap
         /\ last' = Call("dataCallback", "output", OK, r.out)
    /\ UNCHANGED <<input, devices, nextBlock, mgr, threads>>

\* processAudio takes the ticker case, whose body is empty
OutputTaskTick ==
    /\ HasOutput /\ output.tasks > 0
    /\ UNCHANGED vars

\* processAudio takes the ctx.Done() case and returns
OutputTaskExit ==
    /\ HasOutput /\ Zombies(output) > 0
    /\ output' = [output EXCEPT !.tasks = @ - 1]
    /\ UNCHANGED <<input, devices, pool, nextBlock, mgr, last, threads>>

\* the caller cancels the context it passed to Start
OutputCancelCtx ==
    /\ HasOutput /\ output.ctx = "active"
    /\ output' = Cancel(output)
    /\ UNCHANGED <<input, devices, pool, nextBlock, mgr, last, threads>>

OutputNext ==
    \/ DoOutputStart \/ DoOutputStop \/ DoOutputClose \/ DoPlayAudio
    \/ DoOutputSetVolume \/ DoOutputUpdateConfig \/ DoClearQueue
    \/ RequestFrames \/ OutputTaskTick \/ OutputTaskExit \/ OutputCancelCtx

-----------------------------------------------------------------------------
(* Specification of one endpoint object driven directly by its caller *)

NoCall == Call("", "", OK, <<>>)

\* no call is in flight
NoThreads == <<>>

Init ==
    \E dir \in {"input", "output"}, variant \in Variants, cfg \in Configs,
       kind \in ManagerKinds, cat \in Catalogs :
        \* a macOS endpoint is only ever given the macOS device manager
        /\ variant = "macos" => kind = "macos"
        /\ input = IF dir = "input" THEN NewInput(variant, cfg) ELSE NoEndpoint
        /\ output = IF dir = "output" THEN NewOutput(variant, cfg) ELSE NoEndpoint
        /\ devices = [kind |-> kind, list |-> cat, closed |-> FALSE]
        /\ pool = PoolInit
        /\ nextBlock = 1
        /\ mgr = NoManager
        /\ last = NoCall
        /\ threads = NoThreads

Next == InputNext \/ OutputNext

Spec == Init /\ [][Next]_vars

-----------------------------------------------------------------------------
(* Specification of the Manager facade: both endpoints exist and are reached *)
(* only through the Manager's methods, the driver and their own goroutines   *)

HasManager == mgr.present

Apply(r, op) ==
    /\ mgr' = r.mgr
    /\ input' = r.input
    /\ output' = r.output
    /\ devices' = r.devices
    /\ last' = Call(op, "manager", r.err, r.calls)
    /\ UNCHANGED <<pool, nextBlock, threads>>

MgrStartInput ==
    /\ HasManager
    /\ \E drv \in DriverOutcomes, parentDone \in BOOLEAN :
         LET r == ManagerStartInput(mgr, input, output, devices, drv, parentDone) IN
         /\ r.err # OK \/ input.tasks < MaxTasks
         /\ Apply(r, "StartInput")

MgrStartOutput ==
    /\ HasManager
    /\ \E drv \in DriverOutcomes, parentDone \in BOOLEAN :
         LET r == ManagerStartOutput(mgr, input, output, devices, drv, parentDone) IN
         /\ r.err # OK \/ output.tasks < MaxTasks
         /\ Apply(r, "StartOutput")

MgrStop ==
    /\ HasManager
    /\ Apply(ManagerStop(mgr, input, output, devices), "Stop")

MgrClose ==
    /\ HasManager
    /\ Apply(ManagerClose(mgr, input, output, devices), "Close")

MgrUpdateConfig ==
    /\ HasManager
    /\ \E newConfig \in Configs :
         Apply(ManagerUpdateConfig(mgr, input, output, devices, newConfig), "UpdateConfig")

\* the arguments tried through the Manager: one rejected, one accepted
MgrGainArgs == {GainMin - 1, GainMax}
MgrVolumeArgs == {VolumeMin, VolumeMax + 1}

MgrSetInputGain ==
    /\ HasManager
    /\ \E gain \in MgrGainArgs :
         LET r == ManagerSetInputGain(input, gain) IN
         /\ input' = r.ep
         /\ last' = Call("SetInputGain", "manager", r.err, <<>>)
    /\ UNCHANGED <<output, devices, pool, nextBlock, mgr, threads>>

MgrSetOutputVolume ==
    /\ HasManager
    /\ \E volume \in MgrVolumeArgs :
         LET r == ManagerSetOutputVolume(output, volume) IN
         /\ output' = r.ep
         /\ last' = Call("SetOutputVolume", "manager", r.err, <<>>)
    /\ UNCHANGED <<input, devices, pool, nextBlock, mgr, threads>>

InitManager ==
    \E platform \in Platforms, cfg \in Configs, cat \in Catalogs :
        /\ input = NewInput(VariantOn(platform), cfg)
        /\ output = NewOutput(VariantOn(platform), cfg)
        /\ devices = [kind |-> ManagerKindOn(platform), list |-> cat, closed |-> FALSE]
        /\ pool = PoolInit
        /\ nextBlock = 1
        /\ mgr = NewManager(cfg)
        /\ last = NoCall
        /\ threads = NoThreads

NextManager ==
    \/ MgrStartInput \/ MgrStartOutput \/ MgrStop \/ MgrClose
    \/ MgrUpdateConfig \/ MgrSetInputGain \/ MgrSetOutputVolume
    \/ CaptureFrames \/ InputTaskTick \/ InputTaskExit \/ InputCancelCtx
    \/ RequestFrames \/ OutputTaskTick \/ OutputTaskExit \/ OutputCancelCtx

SpecManager == InitManager /\ [][NextManager]_vars

-----------------------------------------------------------------------------
(* Specification of the APRS processor the Manager owns: its caller hands it *)
(* blocks and changes its parameters; the endpoints stay as constructed      *)

\* the samples the blocks are built from: silence, a value below the -40 dB
\* gate (327.67), values on either side of the -20 dB knee (3276.7) and of
\* the -3 dB ceiling (23197.26), twice the knee, and full scale of either sign
ProcSamples ==
    {0, 100, 3276, 3277, 6553, 23197, 23198, Int16Max, -6553, Int16Min}

\* blocks of two samples: full scale, and all below the gate
ProcPairs == {<<Int16Max, -Int16Max>>, <<100, -200>>}

\* blocks whose length is odd: one byte, and one sample followed by a byte
OddBlocks == {<<1>>, <<0, 128, 255>>}

ProcBlocks ==
    {EncodeSamples(<<s>>) : s \in ProcSamples}
        \cup {EncodeSamples(p) : p \in ProcPairs}
        \cup OddBlocks \cup {<<>>}

\* the parameter values set: -40 dB and 0 dB, 4.0 and 0.5, -3 dB and -40 dB
ProcGateDbs == {-40, 0}
ProcRatios == {40, 5}
ProcPeakDbs == {-3, -40}

\* what a ProcessAudio call leaves with its caller: the caller's own block as
\* it is after the call, followed by the block returned (none after a panic)
ProcOut(r) == IF r.err = OK THEN <<r.input, r.output>> ELSE <<r.input>>

ProcessAudioStep(block) ==
    LET r == ProcessAudio(mgr.aprsProcessor, block) IN
    /\ HasManager
    /\ r.ap.clippingCount <= MaxClips
    /\ mgr' = [mgr EXCEPT !.aprsProcessor = r.ap]
    /\ last' = Call("ProcessAudio", "processor", r.err, ProcOut(r))
    /\ UNCHANGED <<input, output, devices, pool, nextBlock, threads>>

DoProcessAudio == \E block \in ProcBlocks : ProcessAudioStep(block)

\* a call that only replaces the processor's state
ProcSet(ap, op) ==
    /\ HasManager
    /\ mgr' = [mgr EXCEPT !.aprsProcessor = ap]
    /\ last' = Call(op, "processor", OK, <<>>)
    /\ UNCHANGED <<input, output, devices, pool, nextBlock, threads>>

DoSetNoiseGateThreshold ==
    \E threshold \in ProcGateDbs :
        ProcSet(SetNoiseGateThreshold(mgr.aprsProcessor, threshold),
                "SetNoiseGateThreshold")

DoSetCompressionRatio ==
    \E ratio \in ProcRatios :
        ProcSet(SetCompressionRatio(mgr.aprsProcessor, ratio), "SetCompressionRatio")

DoSetPeakThreshold ==
    \E threshold \in ProcPeakDbs :
        ProcSet(SetPeakThreshold(mgr.aprsProcessor, threshold), "SetPeakThreshold")

DoEnableNoiseGate ==
    \E enabled \in BOOLEAN :
        ProcSet(EnableNoiseGate(mgr.aprsProcessor, enabled), "EnableNoiseGate")

DoEnableCompressor ==
    \E enabled \in BOOLEAN :
        ProcSet(EnableCompressor(mgr.aprsProcessor, enabled), "EnableCompressor")

DoEnableLimiter ==
    \E enabled \in BOOLEAN :
        ProcSet(EnableLimiter(mgr.aprsProcessor, enabled), "EnableLimiter")

DoResetClippingCount ==
    ProcSet(ResetClippingCount(mgr.aprsProcessor), "ResetClippingCount")

InitProcessor ==
    /\ input = NewInput(VariantOn("other"), CfgA)
    /\ output = NewOutput(VariantOn("other"), CfgA)
    /\ devices = [kind |-> ManagerKindOn("other"), list |-> CatDefault, closed |-> FALSE]
    /\ pool = PoolInit
    /\ nextBlock = 1
    /\ mgr = NewManager(CfgA)
    /\ last = NoCall
    /\ threads = NoThreads

NextProcessor ==
    \/ DoProcessAudio
    \/ DoSetNoiseGateThreshold \/ DoSetCompressionRatio \/ DoSetPeakThreshold
    \/ DoEnableNoiseGate \/ DoEnableCompressor \/ DoEnableLimiter
    \/ DoResetClippingCount

SpecProcessor == InitProcessor /\ [][NextProcessor]_vars

-----------------------------------------------------------------------------
(* Specification of cancellation: one endpoint that is started and stopped   *)
(* while the caller may cancel the context it passed to Start.  A goroutine  *)
(* that can run is eventually scheduled, and a select whose ctx.Done() case  *)
(* stays ready eventually takes it (the ticker case is ready once a period), *)
(* so the return of processAudio is weakly fair.                             *)

InitCancel ==
    \E dir \in {"input", "output"}, variant \in RealVariants :
        /\ input = IF dir = "input" THEN NewInput(variant, CfgA) ELSE NoEndpoint
        /\ output = IF dir = "output" THEN NewOutput(variant, CfgA) ELSE NoEndpoint
        /\ devices = [kind |-> variant, list |-> CatDefault, closed |-> FALSE]
        /\ pool = PoolInit
        /\ nextBlock = 1
        /\ mgr = NoManager
        /\ last = NoCall
        /\ threads = NoThreads

NextCancel ==
    \/ DoInputStart \/ DoInputStop \/ CaptureFrames
    \/ InputTaskTick \/ InputTaskExit \/ InputCancelCtx
    \/ DoOutputStart \/ DoOutputStop \/ DoPlayAudio \/ RequestFrames
    \/ OutputTaskTick \/ OutputTaskExit \/ OutputCancelCtx

SpecCancel ==
    /\ InitCancel
    /\ [][NextCancel]_vars
    /\ WF_vars(InputTaskExit)
    /\ WF_vars(OutputTaskExit)

-----------------------------------------------------------------------------
(* Specification of the playback endpoint at the grain of its statements:   *)
(* a producer in PlayAudio, a reader in GetLevel or IsRunning, the driver   *)
(* in dataCallback and a caller of ClearQueue run concurrently with Start   *)
(* and Stop.  threads holds the position of each; a method that holds       *)
(* o.mu for its whole body is one step, taken when the lock is free.        *)

\* one access to a field of the endpoint: mode "read" or "write", and the
\* mode in which the accessing thread holds o.mu ("none", "R" or "W")
Access(field, mode, lock) == [field |-> field, mode |-> mode, lock |-> lock]

IdleThreads ==
    [producer |-> "idle", reader |-> "idle", driver |-> "idle", cleaner |-> "idle"]

\* o.mu is held by no reader (the writers are single steps)
LockFree == threads.reader = "idle"

\* Output.PlayAudio, first statement: if !o.isRunning { return error }
PlayAudioTest ==
    /\ threads.producer = "idle"
    /\ IF output.isRunning
       THEN /\ threads' = [threads EXCEPT !.producer = "send"]
            /\ last' = Call("PlayAudio.test", "output", OK,
                            <<Access("isRunning", "read", "none")>>)
       ELSE /\ threads' = threads
            /\ last' = Call("PlayAudio", "output", ErrNotRunning,
                            <<Access("isRunning", "read", "none")>>)
    /\ UNCHANGED <<input, output, devices, pool, nextBlock, mgr>>

\* Output.PlayAudio, the select: a non-blocking send on o.queue
PlayAudioSend ==
    /\ threads.producer = "send"
    /\ LET r == OutputPlayAudio([output EXCEPT !.isRunning = TRUE], nextBlock) IN
         /\ output' = [r.ep EXCEPT !.isRunning = output.isRunning]
         /\ nextBlock' = IF r.err = OK THEN (nextBlock % NBlocks) + 1 ELSE nextBlock
         /\ last' = Call("PlayAudio", "output", r.err, <<>>)
    /\ threads' = [threads EXCEPT !.producer = "idle"]
    /\ UNCHANGED <<input, devices, pool, mgr>>

\* GetLevel and IsRunning: o.mu.RLock()
ReaderLock ==
    /\ threads.reader = "idle"
    /\ \E op \in {"GetLevel", "IsRunning"} :
         threads' = [threads EXCEPT !.reader = op]
    /\ UNCHANGED <<input, output, devices, pool, nextBlock, mgr, last>>

\* GetLevel and IsRunning: return the field; the deferred RUnlock
ReaderReturn ==
    /\ threads.reader # "idle"
    /\ last' = Call(threads.reader, "output", OK,
                    <<Access(IF threads.reader = "GetLevel" THEN "level"
                             ELSE "isRunning", "read", "R")>>)
    /\ threads' = [threads EXCEPT !.reader = "idle"]
    /\ UNCHANGED <<input, output, devices, pool, nextBlock, mgr>>

\* Start and Stop hold o.mu.Lock() from their first statement to their return.
\* device.Stop() inside Stop returns only once the driver has stopped, so a
\* callback that is under way finishes before Stop clears the running flag.
LockedStart == LockFree /\ DoOutputStart
LockedStop == LockFree /\ threads.driver = "idle" /\ DoOutputStop

\* Output.dataCallback, first statement: if !o.isRunning { return }
CallbackTest ==
    /\ threads.driver = "idle"
    /\ threads' = [threads EXCEPT !.driver = IF output.isRunning THEN "select"
                                             ELSE "idle"]
    /\ last' = Call("dataCallback.test", "output", OK,
                    <<Access("isRunning", "read", "none")>>)
    /\ UNCHANGED <<input, output, devices, pool, nextBlock, mgr>>

\* Output.dataCallback, the select: receive a block, scale it, meter it and
\* copy it out, or write silence and the floor
CallbackSelect ==
    /\ threads.driver = "select"
    /\ \E fill \in StaleBytes :
         LET n == BufferBytes(output.config.Output)
             r == OutputDataCallback([output EXCEPT !.isRunning = TRUE], pool,
                                     [k \in 1..n |-> fill]) IN
         /\ output' = [r.ep EXCEPT !.isRunning = output.isRunning]
         /\ pool' = r.heap
         /\ last' = Call("dataCallback", "output", OK,
                         IF r.took
                         THEN <<Access("volume", "read", "none"),
                                Access("level", "write", "none")>>
                         ELSE <<Access("level", "write", "none")>>)
    /\ threads' = [threads EXCEPT !.driver = "idle"]
    /\ UNCHANGED <<input, devices, nextBlock, mgr>>

\* ClearQueue is called
ClearCall ==
    /\ threads.cleaner = "idle"
    /\ threads' = [threads EXCEPT !.cleaner = "test"]
    /\ UNCHANGED <<input, output, devices, pool, nextBlock, mgr, last>>

\* ClearQueue, the loop condition: len(o.queue) > 0
ClearTest ==
    /\ threads.cleaner = "test"
    /\ IF Len(output.queue) > 0
       THEN /\ threads' = [threads EXCEPT !.cleaner = "receive"]
            /\ last' = last
       ELSE /\ threads' = [threads EXCEPT !.cleaner = "idle"]
            /\ last' = Call("ClearQueue", "output", OK, <<>>)
    /\ UNCHANGED <<input, output, devices, pool, nextBlock, mgr>>

\* ClearQueue, the loop body: <-o.queue, which waits while the channel is empty
ClearReceive ==
    /\ threads.cleaner = "receive"
    /\ Len(output.queue) > 0
    /\ output' = [output EXCEPT !.queue = Tail(@)]
    /\ threads' = [threads EXCEPT !.cleaner = "test"]
    /\ UNCHANGED <<input, devices, pool, nextBlock, mgr, last>>

\* a Running malgo playback endpoint and no call in flight
InitThreads ==
    \E cfg \in {CfgA, CfgB} :
        LET dm == [kind |-> "malgo",
                   list |-> IF cfg = CfgA THEN CatDefault ELSE CatNoDefault,
                   closed |-> FALSE] IN
        /\ devices = dm
        /\ input = NoEndpoint
        /\ output = OutputStart(NewOutput("malgo", cfg), dm, "ok", FALSE).ep
        /\ pool = PoolInit
        /\ nextBlock = 1
        /\ mgr = NoManager
        /\ last = NoCall
        /\ threads = IdleThreads

NextThreads ==
    \/ PlayAudioTest \/ PlayAudioSend
    \/ ReaderLock \/ ReaderReturn
    \/ LockedStart \/ LockedStop
    \/ CallbackTest \/ CallbackSelect
    \/ ClearCall \/ ClearTest \/ ClearReceive
    \/ OutputTaskExit

\* a goroutine that can run is eventually scheduled: the caller of ClearQueue
\* takes its next step whenever that step stays possible
SpecThreads ==
    /\ InitThreads
    /\ [][NextThreads]_vars
    /\ WF_vars(ClearTest)
    /\ WF_vars(ClearReceive)

-----------------------------------------------------------------------------
(* Specification of the stored scalars: one endpoint whose caller constructs *)
(* and reconfigures it with any Config value.  The constructors and          *)
(* UpdateConfig take a *config.Config and do not call validateConfig, so the *)
(* configurations offered include one that LoadConfig would have rejected.   *)

\* gain 2.5 and volume 1.5
CfgLoud == Config(DirConfig("", 44100, 1, 1, GainMax + 5, "int16"),
                  DirConfig("", 44100, 1, 1, VolumeMax + 5, "int16"))

ScalarConfigs == {CfgA, CfgB, CfgLoud}

ScalarInputUpdateConfig == \E newConfig \in ScalarConfigs : InputUpdateConfigStep(newConfig)
ScalarOutputUpdateConfig == \E newConfig \in ScalarConfigs : OutputUpdateConfigStep(newConfig)

InitScalars ==
    \E dir \in {"input", "output"}, variant \in Variants, cfg \in ScalarConfigs :
        /\ input = IF dir = "input" THEN NewInput(variant, cfg) ELSE NoEndpoint
        /\ output = IF dir = "output" THEN NewOutput(variant, cfg) ELSE NoEndpoint
        /\ devices = [kind |-> IF variant = "macos" THEN "macos" ELSE "malgo",
                      list |-> CatDefault, closed |-> FALSE]
        /\ pool = PoolInit
        /\ nextBlock = 1
        /\ mgr = NoManager
        /\ last = NoCall
        /\ threads = NoThreads

NextScalars ==
    \/ DoInputStart \/ DoInputStop \/ DoInputSetGain \/ ScalarInputUpdateConfig
    \/ InputTaskExit
    \/ DoOutputStart \/ DoOutputStop \/ DoOutputSetVolume \/ ScalarOutputUpdateConfig
    \/ OutputTaskExit

SpecScalars == InitScalars /\ [][NextScalars]_vars

-----------------------------------------------------------------------------
(* Specification of the processor under concurrent callers: one goroutine   *)
(* in ProcessAudio, taken stage by stage, and one in a setter.  threads     *)
(* holds the position of ProcessAudio (pc), the block it was given (block), *)
(* its working copy (data), the processor as it was when the call took the  *)
(* lock (entry), and the setter call waiting for the lock (setter).         *)

SetterIdle == <<"idle">>

ProcIdle ==
    [pc |-> "idle", block |-> <<>>, data |-> <<>>, entry |-> NewAPRSProcessor,
     setter |-> SetterIdle]

\* a setter that does not wait for the lock
ProcLockFree_NoLock == TRUE

\* ap.mu is free: ProcessAudio holds ap.mu.Lock() from its first statement
\* to its return
ProcLockFree == threads.pc = "idle"

\* the blocks processed: a full-scale period and a block of odd length
ConcurrentBlocks == {EncodeSamples(<<Int16Max, -Int16Max>>), <<1>>}

\* the setter calls made: <<method, argument>>
SetterCalls ==
    {<<"EnableNoiseGate", FALSE>>, <<"EnableCompressor", FALSE>>,
     <<"EnableCompressor", TRUE>>, <<"EnableLimiter", FALSE>>,
     <<"SetNoiseGateThreshold", 0>>, <<"SetCompressionRatio", 5>>,
     <<"SetPeakThreshold", -40>>, <<"ResetClippingCount", 0>>}

\* the setter named by a call, applied
ApplySetter(ap, call) ==
    CASE call[1] = "EnableNoiseGate" -> EnableNoiseGate(ap, call[2])
      [] call[1] = "EnableCompressor" -> EnableCompressor(ap, call[2])
      [] call[1] = "EnableLimiter" -> EnableLimiter(ap, call[2])
      [] call[1] = "SetNoiseGateThreshold" -> SetNoiseGateThreshold(ap, call[2])
      [] call[1] = "SetCompressionRatio" -> SetCompressionRatio(ap, call[2])
      [] call[1] = "SetPeakThreshold" -> SetPeakThreshold(ap, call[2])
      [] OTHER -> ResetClippingCount(ap)

\* ProcessAudio: ap.mu.Lock(); output := make(..); copy(output, input)
ProcessLock ==
    /\ threads.pc = "idle"
    /\ \E block \in ConcurrentBlocks :
         threads' = [threads EXCEPT !.pc = "levels", !.block = block,
                                    !.data = Copy(Zeros(Len(block)), block),
                                    !.entry = mgr.aprsProcessor]
    /\ UNCHANGED <<input, output, devices, pool, nextBlock, mgr, last>>

\* ProcessAudio: ap.calculateLevels(output); on an odd-length block it
\* panics, the deferred Unlock runs and the call ends
ProcessLevels ==
    /\ threads.pc = "levels"
    /\ IF LoopPanics(threads.data)
       THEN /\ threads' = [ProcIdle EXCEPT !.setter = threads.setter]
            /\ last' = Call("ProcessAudio", "processor", Panic, <<threads.block>>)
            /\ mgr' = mgr
       ELSE /\ threads' = [threads EXCEPT !.pc = "gate"]
            /\ mgr' = [mgr EXCEPT !.aprsProcessor = calculateLevels(@, threads.data)]
            /\ last' = last
    /\ UNCHANGED <<input, output, devices, pool, nextBlock>>

\* ProcessAudio: if ap.isNoiseGateEnabled { ap.applyNoiseGate(output) }
ProcessGate ==
    /\ threads.pc = "gate"
    /\ threads' = [threads EXCEPT
                     !.pc = "compressor",
                     !.data = IF mgr.aprsProcessor.isNoiseGateEnabled
                              THEN applyNoiseGate(mgr.aprsProcessor, @) ELSE @]
    /\ UNCHANGED <<input, output, devices, pool, nextBlock, mgr, last>>

\* ProcessAudio: if ap.isCompressorEnabled { ap.applyCompressor(output) }
ProcessCompressor ==
    /\ threads.pc = "compressor"
    /\ threads' = [threads EXCEPT
                     !.pc = "limiter",
                     !.data = IF mgr.aprsProcessor.isCompressorEnabled
                              THEN applyCompressor(mgr.aprsProcessor, @) ELSE @]
    /\ UNCHANGED <<input, output, devices, pool, nextBlock, mgr, last>>

\* ProcessAudio: if ap.isLimiterEnabled { ap.applyLimiter(output) }
ProcessLimiter ==
    /\ threads.pc = "limiter"
    /\ LET r == IF mgr.aprsProcessor.isLimiterEnabled
                THEN applyLimiter(mgr.aprsProcessor, threads.data)
                ELSE [ap |-> mgr.aprsProcessor, data |-> threads.data] IN
         /\ r.ap.clippingCount <= MaxClips
         /\ mgr' = [mgr EXCEPT !.aprsProcessor = r.ap]
         /\ threads' = [threads EXCEPT !.pc = "return", !.data = r.data]
    /\ UNCHANGED <<input, output, devices, pool, nextBlock, last>>

\* ProcessAudio: return output; the deferred ap.mu.Unlock()
ProcessReturn ==
    /\ threads.pc = "return"
    /\ last' = Call("ProcessAudio", "processor", OK, <<threads.block, threads.data>>)
    /\ threads' = [ProcIdle EXCEPT !.setter = threads.setter]
    /\ UNCHANGED <<input, output, devices, pool, nextBlock, mgr>>

\* a setter is called and waits at ap.mu.Lock()
SetterCall ==
    /\ threads.setter = SetterIdle
    /\ \E call \in SetterCalls : threads' = [threads EXCEPT !.setter = call]
    /\ UNCHANGED <<input, output, devices, pool, nextBlock, mgr, last>>

\* the setter obtains the lock, assigns its field and returns
SetterApply ==
    /\ threads.setter # SetterIdle
    /\ ProcLockFree
    /\ mgr' = [mgr EXCEPT !.aprsProcessor = ApplySetter(@, threads.setter)]
    /\ threads' = [threads EXCEPT !.setter = SetterIdle]
    /\ last' = Call(threads.setter[1], "processor", OK, <<>>)
    /\ UNCHANGED <<input, output, devices, pool, nextBlock>>

InitConcurrent ==
    /\ input = NewInput(VariantOn("other"), CfgA)
    /\ output = NewOutput(VariantOn("other"), CfgA)
    /\ devices = [kind |-> ManagerKindOn("other"), list |-> CatDefault, closed |-> FALSE]
    /\ pool = PoolInit
    /\ nextBlock = 1
    /\ mgr = NewManager(CfgA)
    /\ last = NoCall
    /\ threads = ProcIdle

NextConcurrent ==
    \/ ProcessLock \/ ProcessLevels \/ ProcessGate \/ ProcessCompressor
    \/ ProcessLimiter \/ ProcessReturn
    \/ SetterCall \/ SetterApply

SpecConcurrent == InitConcurrent /\ [][NextConcurrent]_vars

-----------------------------------------------------------------------------
(* Configuration validation: config.validateConfig, and the specification   *)
(* that applies it to the configurations a file can hold                    *)

ErrInputSampleRate == "input sample rate must be greater than 0"
ErrOutputSampleRate == "output sample rate must be greater than 0"
ErrInputChannels == "input channels must be between 1 and 8"
ErrOutputChannels == "output channels must be between 1 and 8"
ErrInputBufferSize == "input buffer size must be greater than 0"
ErrOutputBufferSize == "output buffer size must be greater than 0"
ErrInputGain == "input gain must be between 0.0 and 2.0"
ErrOutputVolume == "output volume must be between 0.0 and 1.0"
ErrAudioFormat == "audio format must be 'int16' or 'float32'"

MaxChannels == 8

\* the Config of package config: the two direction sections and
\* Audio.Processing.Format
FileConfig(inp, out, fmt) ==
    [Input |-> inp, Output |-> out, Processing |-> [Format |-> fmt]]

\* a validation that refuses the largest gain
validateConfig_GainBelowMax(config) ==
    IF config.Input.SampleRate <= 0 THEN ErrInputSampleRate
    ELSE IF config.Output.SampleRate <= 0 THEN ErrOutputSampleRate
    ELSE IF config.Input.Channels <= 0 \/ config.Input.Channels > MaxChannels
    THEN ErrInputChannels
    ELSE IF config.Output.Channels <= 0 \/ config.Output.Channels > MaxChannels
    THEN ErrOutputChannels
    ELSE IF config.Input.BufferSize <= 0 THEN ErrInputBufferSize
    ELSE IF config.Output.BufferSize <= 0 THEN ErrOutputBufferSize
    ELSE IF config.Input.Scalar < GainMin \/ config.Input.Scalar >= GainMax
    THEN ErrInputGain
    ELSE IF config.Output.Scalar < VolumeMin \/ config.Output.Scalar > VolumeMax
    THEN ErrOutputVolume
    ELSE IF config.Processing.Format # "int16" /\ config.Processing.Format # "float32"
    THEN ErrAudioFormat
    ELSE OK

\* validateConfig(config): the first failed test decides the error
validateConfig(config) ==
    IF config.Input.SampleRate <= 0 THEN ErrInputSampleRate
    ELSE IF config.Output.SampleRate <= 0 THEN ErrOutputSampleRate
    ELSE IF config.Input.Channels <= 0 \/ config.Input.Channels > MaxChannels
    THEN ErrInputChannels
    ELSE IF config.Output.Channels <= 0 \/ config.Output.Channels > MaxChannels
    THEN ErrOutputChannels
    ELSE IF config.Input.BufferSize <= 0 THEN ErrInputBufferSize
    ELSE IF config.Output.BufferSize <= 0 THEN ErrOutputBufferSize
    ELSE IF config.Input.Scalar < GainMin \/ config.Input.Scalar > GainMax
    THEN ErrInputGain
    ELSE IF config.Output.Scalar < VolumeMin \/ config.Output.Scalar > VolumeMax
    THEN ErrOutputVolume
    ELSE IF config.Processing.Format # "int16" /\ config.Processing.Format # "float32"
    THEN ErrAudioFormat
    ELSE OK

\* values of the fields of a configuration file: around zero, at the ends of
\* the ranges and one step (0.1) outside them
FileSampleRates == {-1, 0, 44100}
FileChannels == {0, 1, MaxChannels, MaxChannels + 1}
FileBufferSizes == {0, 1}
FileGains == {GainMin - 1, GainMin, GainMax, GainMax + 1}
FileVolumes == {VolumeMin - 1, VolumeMin, VolumeMax, VolumeMax + 1}
FileFormats == {"int16", "float32", "int24", ""}

FileConfigs ==
    {FileConfig(DirConfig("", ir, ic, ib, g, "int16"),
                DirConfig("", or, oc, ob, v, "int16"), f) :
        ir \in FileSampleRates, or \in FileSampleRates,
        ic \in FileChannels, oc \in FileChannels,
        ib \in FileBufferSizes, ob \in FileBufferSizes,
        g \in FileGains, v \in FileVolumes, f \in FileFormats}

\* the configuration read from the file, before validation
Unmarshalled(config) == [present |-> FALSE, config |-> config]

\* LoadConfig validates the configuration it has read
DoValidateConfig ==
    /\ ~mgr.present
    /\ last = NoCall
    /\ last' = Call("validateConfig", "config", validateConfig(mgr.config), <<>>)
    /\ UNCHANGED <<input, output, devices, pool, nextBlock, mgr, threads>>

InitConfig ==
    /\ input = NoEndpoint
    /\ output = NoEndpoint
    /\ devices = [kind |-> "malgo", list |-> CatDefault, closed |-> FALSE]
    /\ pool = PoolInit
    /\ nextBlock = 1
    /\ mgr \in {Unmarshalled(c) : c \in FileConfigs}
    /\ last = NoCall
    /\ threads = NoThreads

NextConfig == DoValidateConfig

SpecConfig == InitConfig /\ [][NextConfig]_vars

-----------------------------------------------------------------------------
(* Specification of the sample path of one Running endpoint: the driver     *)
(* delivers or requests periods of arbitrary samples while the caller       *)
(* changes the gain or the volume and registers or removes the consumer     *)

\* stereo periods of one frame: silence, +/-1, a value whose square passes
\* 2^15, values whose squares are multiples of 2^16, alternating full scale,
\* negative full scale, and a pair that twice its value leaves the 16-bit range
SignalPairs ==
    {<<0, 0>>, <<1, -1>>, <<182, 182>>, <<256, 16384>>,
     <<Int16Max, -Int16Max>>, <<Int16Min, Int16Min>>, <<16384, -16385>>}

SignalBlocks == {EncodeSamples(p) : p \in SignalPairs}

\* 0.0, 0.5, 1.0, 1.5, 2.0 and 0.0, 0.5, 1.0
SignalGains == {GainMin, 5, Unity, 15, GainMax}
SignalVolumes == {VolumeMin, 5, VolumeMax}

\* a period of two frames, longer than the resident buffer
SignalLongBlocks == {EncodeSamples(<<1, -1, 182, 182>>)}

\* the frameCount the driver passes with a block of interleaved 16-bit frames
FrameCount(dc, data) == Len(data) \div (dc.Channels * 2)

\* the invocations of the consumer that dataCallback makes:
\* i.callback(i.buffer, int(frameCount)) when a callback is registered
ConsumerCalls(i, pInputSamples, frameCount) ==
    LET r == InputDataCallback(i, pInputSamples) IN
    IF r.forwarded THEN << <<r.ep.buffer, frameCount>> >> ELSE <<>>

\* the capture driver delivers one period
SignalCapture ==
    /\ HasInput
    /\ \E block \in SignalBlocks \cup SignalLongBlocks :
         LET frameCount == FrameCount(input.config.Input, block) IN
         /\ input' = InputDataCallback(input, block).ep
         /\ last' = Call("dataCallback", "input", OK,
                         ConsumerCalls(input, block, frameCount))
    /\ UNCHANGED <<output, devices, pool, nextBlock, mgr, threads>>

SignalSetGain == \E gain \in SignalGains : InputSetGainStep(gain)

\* the producer fills its buffer and hands it to PlayAudio; it reuses the
\* buffer only once the queue has been drained
SignalPlay ==
    /\ HasOutput
    /\ OutputGetQueueSize(output) = 0
    /\ \E block \in SignalBlocks :
         LET r == AudioOutputPlayAudio(output, 1) IN
         /\ pool' = [pool EXCEPT ![1] = block]
         /\ output' = r.ep
         /\ last' = Call("PlayAudio", "output", r.err, <<>>)
    /\ UNCHANGED <<input, devices, nextBlock, mgr, threads>>

SignalSetVolume == \E volume \in SignalVolumes : OutputSetVolumeStep(volume)

\* a malgo endpoint of the stereo configuration, started on a catalog that
\* lists its device
InitSignal ==
    \E dir \in {"input", "output"} :
        LET dm == [kind |-> "malgo", list |-> CatNoDefault, closed |-> FALSE] IN
        /\ devices = dm
        /\ input = IF dir = "input"
                   THEN InputStart(NewInput("malgo", CfgB), dm, "ok", FALSE).ep
                   ELSE NoEndpoint
        /\ output = IF dir = "output"
                    THEN OutputStart(NewOutput("malgo", CfgB), dm, "ok", FALSE).ep
                    ELSE NoEndpoint
        /\ pool = PoolInit
        /\ nextBlock = 1
        /\ mgr = NoManager
        /\ last = NoCall
        /\ threads = NoThreads

NextSignal ==
    \/ SignalCapture \/ SignalSetGain \/ DoInputSetCallback
    \/ SignalPlay \/ SignalSetVolume \/ RequestFrames

SpecSignal == InitSignal /\ [][NextSignal]_vars

-----------------------------------------------------------------------------
(* Properties of the endpoints' life cycle and of the playback queue *)

\* C1: Start called on an endpoint that is Running, capture or playback,
\* fails with AlreadyRunning and changes nothing: the endpoint stays Running
\* with the same driver handle and the same maintenance task (every field of
\* the endpoint is as before the call).
C1_StartWhileRunning ==
    [][ /\ (last'.op = "Start" /\ DoInputStart /\ InputIsRunning(input))
            => (last'.err = ErrAlreadyRunning /\ input' = input)
        /\ (last'.op = "Start" /\ DoOutputStart /\ OutputIsRunning(output))
            => (last'.err = ErrAlreadyRunning /\ output' = output) ]_vars

\* a Start has just been refused on a capture endpoint that is Running with
\* its one driver handle and its one maintenance task
C1_Witness ==
    /\ HasInput
    /\ last.op = "Start" /\ last.err = ErrAlreadyRunning
    /\ input.isRunning /\ input.handles = 1 /\ input.tasks = 1

\* C2: Stop never returns an error and always leaves the endpoint Stopped;
\* on an endpoint that is already Stopped it changes nothing, so a second
\* Stop after a Stop has no further effect; Close behaves the same way.
C2_StopIdempotent ==
    [][ /\ (last'.op \in {"Stop", "Close"} /\ (DoInputStop \/ DoInputClose))
            => /\ last'.err = OK
               /\ ~InputIsRunning(input')
               /\ ~InputIsRunning(input) => input' = input
               /\ AudioInputStop(input').ep = input'
               /\ AudioInputClose(input').ep = input'
        /\ (last'.op \in {"Stop", "Close"} /\ (DoOutputStop \/ DoOutputClose))
            => /\ last'.err = OK
               /\ ~OutputIsRunning(output')
               /\ ~OutputIsRunning(output) => output' = output
               /\ AudioOutputStop(output').ep = output'
               /\ AudioOutputClose(output').ep = output' ]_vars

\* a Stop has just returned on a playback endpoint that had been started: it
\* is Stopped, its context cancelled and its driver handle released
C2_Witness ==
    /\ HasOutput /\ output.variant = "malgo"
    /\ last.op = "Stop" /\ last.err = OK
    /\ ~output.isRunning /\ output.ctx = "done" /\ output.handles = 0

\* C3: Start on a Stopped capture or playback endpoint takes the configured
\* device name when it is not empty and the catalog's default device of the
\* direction otherwise; when that device does not exist, or does not list the
\* configured sample rate, channel count and format, Start fails with
\* DeviceUnavailable, the endpoint stays Stopped, no driver handle is opened
\* and no maintenance task is spawned; an endpoint goes from Stopped to
\* Running only in a Start that succeeds, and then the device exists and
\* supports the configuration.
C3_StartResolvesDevice ==
    [][ /\ (last'.op = "Start" /\ DoInputStart
               /\ input.variant \in RealVariants /\ ~InputIsRunning(input))
            => LET dc == input.config.Input
                   dflt == GetDefaultDevice(devices, "input")
                   name == IF dc.DeviceName # "" THEN dc.DeviceName ELSE dflt.device.Name
                   dev == GetDeviceByName(devices, name, "input")
                   missing == IF dc.DeviceName # "" THEN ~dev.found ELSE ~dflt.found
                   unsupported == /\ ~missing
                                  /\ ~ /\ dc.SampleRate \in dev.device.SampleRates
                                       /\ dc.Channels \in dev.device.Channels
                                       /\ dc.Format \in dev.device.Formats
               IN /\ (missing \/ unsupported)
                      => /\ last'.err = ErrDeviceUnavailable
                         /\ ~InputIsRunning(input')
                         /\ input'.handles = input.handles /\ ~input'.device
                         /\ input'.tasks = input.tasks
                  /\ last'.err = OK
                      => /\ ~missing /\ ~unsupported
                         /\ InputIsRunning(input')
                         /\ input.variant = "macos" => input'.deviceName = name
        /\ (HasInput /\ ~InputIsRunning(input) /\ InputIsRunning(input'))
            => (DoInputStart /\ last'.err = OK)
        /\ (last'.op = "Start" /\ DoOutputStart
               /\ output.variant \in RealVariants /\ ~OutputIsRunning(output))
            => LET dc == output.config.Output
                   dflt == GetDefaultDevice(devices, "output")
                   name == IF dc.DeviceName # "" THEN dc.DeviceName ELSE dflt.device.Name
                   dev == GetDeviceByName(devices, name, "output")
                   missing == IF dc.DeviceName # "" THEN ~dev.found ELSE ~dflt.found
                   unsupported == /\ ~missing
                                  /\ ~ /\ dc.SampleRate \in dev.device.SampleRates
                                       /\ dc.Channels \in dev.device.Channels
                                       /\ dc.Format \in dev.device.Formats
               IN /\ (missing \/ unsupported)
                      => /\ last'.err = ErrDeviceUnavailable
                         /\ ~OutputIsRunning(output')
                         /\ output'.handles = output.handles /\ ~output'.device
                         /\ output'.tasks = output.tasks
                  /\ last'.err = OK
                      => /\ ~missing /\ ~unsupported
                         /\ OutputIsRunning(output')
                         /\ output.variant = "macos" => output'.deviceName = name
        /\ (HasOutput /\ ~OutputIsRunning(output) /\ OutputIsRunning(output'))
            => (DoOutputStart /\ last'.err = OK) ]_vars

\* a Start has just failed with DeviceUnavailable on a playback endpoint whose
\* configuration names a device the catalog does not hold
C3_Witness ==
    /\ HasOutput /\ output.variant \in RealVariants
    /\ last.op = "Start" /\ last.err = ErrDeviceUnavailable
    /\ output.config.Output.DeviceName # ""
    /\ ~GetDeviceByName(devices, output.config.Output.DeviceName, "output").found
    /\ ~output.isRunning /\ output.handles = 0 /\ output.tasks = 0

\* C4: on a Running playback endpoint whose queue holds 10 blocks, PlayAudio
\* returns QueueFull, the offered block is dropped and the queue is as it
\* was; the queue never holds more than 10 blocks.
C4_QueueFull ==
    /\ [](HasOutput => Len(output.queue) <= 10)
    /\ [][ (last'.op = "PlayAudio" /\ DoPlayAudio
               /\ OutputIsRunning(output) /\ Len(output.queue) = 10)
            => /\ last'.err = ErrQueueFull
               /\ output' = output
               /\ pool' = pool ]_vars

\* a PlayAudio has just been refused with QueueFull on a Running endpoint
\* whose queue holds 10 blocks
C4_Witness ==
    /\ HasOutput /\ output.isRunning
    /\ last.op = "PlayAudio" /\ last.err = ErrQueueFull
    /\ Len(output.queue) = 10

\* C5: PlayAudio on a playback endpoint that is Stopped fails with NotRunning
\* and enqueues nothing, for every variant of the playback endpoint, the stub
\* included.
C5_PlayAudioWhileStopped ==
    [][ (last'.op = "PlayAudio" /\ DoPlayAudio /\ ~OutputIsRunning(output))
            => /\ last'.err = ErrNotRunning
               /\ output' = output ]_vars

\* the stub's PlayAudio has just returned without an error although the stub
\* is never Running
C5_Witness ==
    /\ HasOutput /\ output.variant = "generic"
    /\ ~OutputIsRunning(output)
    /\ last.op = "PlayAudio" /\ last.err = OK

\* C6: each frame request of the driver on a Running playback endpoint whose
\* queue is not empty removes exactly one block, the one at the head, and
\* hands it to the driver, and a block accepted by the Running endpoint joins
\* the queue at the back,
\* so blocks are delivered in the order accepted; when the queue is empty the
\* whole driver buffer is filled with zeros, the level is set to -96.0 and
\* the queue stays empty.
C6_FrameRequest ==
    [][ /\ (last'.op = "dataCallback" /\ RequestFrames
               /\ OutputIsRunning(output) /\ output.queue # <<>>)
            => LET id == Head(output.queue) IN
               /\ output'.queue = Tail(output.queue)
               /\ \A k \in 1..Len(last'.out) :
                      k <= Len(pool'[id]) => last'.out[k] = pool'[id][k]
        /\ (last'.op = "PlayAudio" /\ DoPlayAudio
               /\ OutputIsRunning(output) /\ last'.err = OK)
            => output'.queue = Append(output.queue, nextBlock)
        /\ (last'.op = "dataCallback" /\ RequestFrames
               /\ OutputIsRunning(output) /\ output.queue = <<>>)
            => /\ Len(last'.out) = output.config.Output.BufferSize
                                     * output.config.Output.Channels * 2
               /\ \A k \in 1..Len(last'.out) : last'.out[k] = 0
               /\ OutputGetLevel(output').kind = "const"
               /\ OutputGetLevel(output').db = -96
               /\ output'.queue = <<>> ]_vars

\* a frame request has just handed the block of sample value 2 to the driver
\* while a later block is still waiting
C6_Witness ==
    /\ HasOutput /\ output.isRunning
    /\ last.op = "dataCallback" /\ last.dir = "output"
    /\ last.out # <<>> /\ last.out[1] = 2
    /\ Len(output.queue) >= 1

\* C7: UpdateConfig on a Running endpoint fails with InvalidOperation and
\* leaves the stored configuration, the gain or volume, the resident buffer
\* and the Running state as they were.
C7_UpdateConfigWhileRunning ==
    [][ /\ \A nc \in Configs :
            (last'.op = "UpdateConfig" /\ InputUpdateConfigStep(nc)
                /\ InputIsRunning(input))
                => (last'.err = ErrInvalidOperation /\ input' = input)
        /\ \A nc \in Configs :
            (last'.op = "UpdateConfig" /\ OutputUpdateConfigStep(nc)
                /\ OutputIsRunning(output))
                => (last'.err = ErrInvalidOperation /\ output' = output) ]_vars

\* an UpdateConfig has just been refused on a Running capture endpoint whose
\* gain, set through SetGain, differs from its configuration's
C7_Witness ==
    /\ HasInput /\ input.isRunning
    /\ last.op = "UpdateConfig" /\ last.err = ErrInvalidOperation
    /\ input.gain # input.config.Input.Scalar

C10_OutputNeedsInput ==
    /\ [](OutputIsRunning(output) => (mgr.isRunning /\ InputIsRunning(input)))
    /\ [][ /\ (last'.op = "StartOutput" /\ ~InputIsRunning(input) /\ MgrStartOutput)
                => /\ last'.err = ErrInputNotStarted
                   /\ output' = output
                   /\ ~OutputIsRunning(output')
           /\ (~mgr.isRunning /\ mgr'.isRunning)
                => (MgrStartInput /\ last'.err = OK)
           /\ (last'.op = "Stop" /\ mgr.isRunning /\ MgrStop)
                => ~mgr'.isRunning ]_vars

\* a StartOutput has just been refused with InputNotStarted after the input
\* endpoint had been started and stopped again
C10_Witness ==
    /\ HasManager
    /\ last.op = "StartOutput" /\ last.err = ErrInputNotStarted
    /\ ~input.isRunning /\ input.ctx = "done"
    /\ ~output.isRunning

-----------------------------------------------------------------------------
(* Properties of the Manager's teardown *)

\* C11: Manager.Stop always returns success; on a running manager it invokes
\* the input endpoint's Stop and then the output endpoint's Stop, and
\* afterwards the input is Stopped, the output is Stopped and the manager
\* reports not running; on a manager that is not running it changes nothing.
C11_ManagerStop ==
    [][ (last'.op = "Stop" /\ last'.dir = "manager" /\ MgrStop)
            => /\ last'.err = OK
               /\ IF mgr.isRunning
                  THEN /\ last'.out = <<"input.Stop", "output.Stop">>
                       /\ ~InputIsRunning(input')
                       /\ ~OutputIsRunning(output')
                       /\ ~mgr'.isRunning
                  ELSE /\ last'.out = <<>>
                       /\ input' = input /\ output' = output
                       /\ mgr' = mgr /\ devices' = devices ]_vars

\* Manager.Stop has just returned on a manager whose two endpoints had both
\* been running
C11_Witness ==
    /\ HasManager /\ ~mgr.isRunning
    /\ last.op = "Stop" /\ last.dir = "manager" /\ last.err = OK
    /\ last.out = <<"input.Stop", "output.Stop">>
    /\ ~input.isRunning /\ input.ctx = "done"
    /\ ~output.isRunning /\ output.ctx = "done"

\* C12: Manager.Close always returns success: it stops both endpoints first,
\* then invokes Close on the input, on the output and on the device catalog,
\* in that order and each of them unconditionally; afterwards both endpoints
\* are Stopped and the manager is not running.
C12_ManagerClose ==
    [][ (last'.op = "Close" /\ last'.dir = "manager" /\ MgrClose)
            => /\ last'.err = OK
               /\ last'.out = (IF mgr.isRunning
                               THEN <<"input.Stop", "output.Stop">> ELSE <<>>)
                              \o <<"cancel", "input.Close", "output.Close",
                                   "devices.Close">>
               /\ ~InputIsRunning(input')
               /\ ~OutputIsRunning(output')
               /\ ~mgr'.isRunning
               /\ devices.kind = "malgo" => devices'.closed ]_vars

\* Manager.Close has just returned on a manager that was running with both
\* endpoints started: the driver context is released
C12_Witness ==
    /\ HasManager /\ ~mgr.isRunning
    /\ last.op = "Close" /\ last.dir = "manager" /\ last.err = OK
    /\ Len(last.out) = 6
    /\ ~input.isRunning /\ input.ctx = "done"
    /\ ~output.isRunning /\ output.ctx = "done"
    /\ devices.closed

-----------------------------------------------------------------------------
(* Properties of the APRS processor *)

\* C13: for every input block and every parameter and enable setting,
\* ProcessAudio returns a block of the same length as its input and leaves the
\* caller's block exactly as it was.
C13_ProcessAudioCopies ==
    [][ \A block \in ProcBlocks :
            (last'.op = "ProcessAudio" /\ ProcessAudioStep(block))
                => /\ Len(last'.out) = 2
                   /\ last'.out[1] = block
                   /\ Len(last'.out[2]) = Len(block) ]_vars

\* a call on a three-byte block has ended without returning a block
C13_Witness ==
    /\ last.op = "ProcessAudio"
    /\ last.dir = "processor"
    /\ last.out = << <<0, 128, 255>> >>

\* C14: ProcessAudio never fails, whatever the block: empty and odd-length
\* blocks come back with their length unchanged, and after an empty block the
\* stored peak and RMS levels are both -96.0.
C14_ProcessAudioNeverFails ==
    [][ \A block \in ProcBlocks :
            (last'.op = "ProcessAudio" /\ ProcessAudioStep(block))
                => /\ last'.err = OK
                   /\ Len(last'.out[2]) = Len(block)
                   /\ Len(block) = 0 =>
                        /\ GetPeakLevel(mgr'.aprsProcessor) = LevelFloor
                        /\ GetRMSLevel(mgr'.aprsProcessor) = LevelFloor ]_vars

\* a call on a one-byte block has panicked
C14_Witness ==
    /\ last.op = "ProcessAudio"
    /\ last.dir = "processor"
    /\ last.err = Panic
    /\ last.out = << <<1>> >>

\* ProcessAudio on whole samples: the part of C13 and C14 the code keeps
ProcessAudioWholeSamples ==
    [][ \A block \in ProcBlocks :
            (last'.op = "ProcessAudio" /\ ProcessAudioStep(block) /\ ~LoopPanics(block))
                => /\ last'.err = OK
                   /\ last'.out[1] = block
                   /\ Len(last'.out[2]) = Len(block)
                   /\ Len(block) = 0 =>
                        /\ GetPeakLevel(mgr'.aprsProcessor) = LevelFloor
                        /\ GetRMSLevel(mgr'.aprsProcessor) = LevelFloor ]_vars

\* the samples that reach the limiter: the block after the stages before it
LimiterEntry(ap, block) ==
    DecodeSamples(ProcessAudio([ap EXCEPT !.isLimiterEnabled = FALSE], block).output)

\* C15: with the limiter enabled, whatever the block and the settings of the
\* other stages, no output sample's magnitude exceeds the linear ceiling, a
\* clipped sample keeps its sign, a sample within the ceiling passes, and the
\* clipping counter grows by exactly the number of samples that exceeded the
\* ceiling on entry to the limiter (by none when the call panics).
C15_Limiter ==
    [][ (/\ last'.op = "ProcessAudio"
         /\ last'.dir = "processor"
         /\ mgr.aprsProcessor.isLimiterEnabled)
            => LET ap == mgr.aprsProcessor
                   ceiling == Linear(ap.peakThreshold)
                   before == GetClippingCount(ap)
                   after == GetClippingCount(mgr'.aprsProcessor) IN
               IF last'.err # OK THEN after = before
               ELSE \A entry \in {LimiterEntry(ap, last'.out[1])} :
                    \A out \in {DecodeSamples(last'.out[2])} :
                    \A over \in {{k \in 1..Len(entry) : Abs(entry[k]) * 100 > ceiling}} :
                    /\ Len(out) = Len(entry)
                    /\ \A k \in 1..Len(out) :
                         /\ Abs(out[k]) * 100 <= ceiling
                         /\ k \in over => (out[k] > 0) = (entry[k] > 0)
                         /\ k \in over => (out[k] < 0) = (entry[k] < 0)
                         /\ k \notin over => out[k] = entry[k]
                    /\ after = before + Cardinality(over) ]_vars

\* the limiter has clipped a sample just over the -3 dB ceiling, and a
\* negative full-scale sample to the -40 dB ceiling
C15_Witness ==
    /\ last.op = "ProcessAudio"
    /\ last.err = OK
    /\ mgr.aprsProcessor.isLimiterEnabled
    /\ GetClippingCount(mgr.aprsProcessor) > 0
    /\ \/ /\ mgr.aprsProcessor.peakThreshold = -3
          /\ last.out = <<EncodeSamples(<<23198>>), EncodeSamples(<<23197>>)>>
       \/ /\ mgr.aprsProcessor.peakThreshold = -40
          /\ ~mgr.aprsProcessor.isCompressorEnabled
          /\ last.out = <<EncodeSamples(<<Int16Min>>), EncodeSamples(<<-327>>)>>

\* the processor's parameters and switches are those NewAPRSProcessor sets
HasDefaults(ap) ==
    /\ ap.noiseGateThreshold = NewAPRSProcessor.noiseGateThreshold
    /\ ap.compressionRatio = NewAPRSProcessor.compressionRatio
    /\ ap.peakThreshold = NewAPRSProcessor.peakThreshold
    /\ ap.isNoiseGateEnabled /\ ap.isCompressorEnabled /\ ap.isLimiterEnabled

\* the block's largest magnitude is full scale
IsFullScale(block) ==
    /\ ~LoopPanics(block)
    /\ PeakAbs(DecodeSamples(block), NumSamples(block)) >= Int16Max

\* C16 as stated: with the default parameters and all stages enabled, a
\* full-scale block comes out with its peak within 0.1 dB of the -3 dB ceiling
\* (a magnitude between 22932 and 23465), and the limiter has clipped at least
\* one sample, so the clipping counter has grown.
C16_DefaultsReachCeiling ==
    [][ (/\ last'.op = "ProcessAudio"
         /\ last'.dir = "processor"
         /\ HasDefaults(mgr.aprsProcessor)
         /\ IsFullScale(last'.out[1]))
            => LET out == DecodeSamples(last'.out[2])
                   peak == PeakAbs(out, Len(out)) IN
               /\ 22932 <= peak /\ peak <= 23465
               /\ GetClippingCount(mgr'.aprsProcessor)
                     > GetClippingCount(mgr.aprsProcessor) ]_vars

\* C16, amended: with the default parameters and all stages enabled, a
\* full-scale block comes out with peak 10649 (about -9.8 dB), the value the
\* compressor gives to full scale (knee + (32767 - knee)/4); that is below the
\* -3 dB ceiling, so the limiter clips no sample and the clipping counter is
\* unchanged.
C16_DefaultsStayBelowCeiling ==
    [][ (/\ last'.op = "ProcessAudio"
         /\ last'.dir = "processor"
         /\ HasDefaults(mgr.aprsProcessor)
         /\ IsFullScale(last'.out[1]))
            => LET out == DecodeSamples(last'.out[2])
                   peak == PeakAbs(out, Len(out)) IN
               /\ last'.err = OK
               /\ peak = 10649
               /\ peak * 100 < Linear(NewAPRSProcessor.peakThreshold)
               /\ GetClippingCount(mgr'.aprsProcessor)
                     = GetClippingCount(mgr.aprsProcessor) ]_vars

\* an alternating full-scale block has been processed with the defaults
C16_Witness ==
    /\ last.op = "ProcessAudio"
    /\ last.err = OK
    /\ HasDefaults(mgr.aprsProcessor)
    /\ last.out = <<EncodeSamples(<<Int16Max, -Int16Max>>),
                    EncodeSamples(<<10649, -10649>>)>>
    /\ GetClippingCount(mgr.aprsProcessor) = 0

\* what the stages after the gate make of the block when the gate is skipped
GateSkipped(ap, block) ==
    DecodeSamples(ProcessAudio([ap EXCEPT !.isNoiseGateEnabled = FALSE], block).output)

\* C17: with the gate enabled, a sample whose magnitude is below the linear
\* threshold comes out as 0; a sample at or above it (exactly at the boundary
\* included) is passed on by the gate unchanged, so it comes out as the later
\* stages alone would leave it, and as itself when they are disabled; a block
\* whose samples are all below the threshold comes out all zero.
C17_NoiseGate ==
    [][ (/\ last'.op = "ProcessAudio"
         /\ last'.dir = "processor"
         /\ last'.err = OK
         /\ mgr.aprsProcessor.isNoiseGateEnabled)
            => LET ap == mgr.aprsProcessor
                   threshold == Linear(ap.noiseGateThreshold)
                   in == DecodeSamples(last'.out[1])
                   out == DecodeSamples(last'.out[2])
                   skipped == GateSkipped(ap, last'.out[1])
                   below == {k \in 1..Len(in) : Abs(in[k]) * 100 < threshold} IN
               /\ Len(out) = Len(in)
               /\ \A k \in 1..Len(in) :
                    /\ k \in below => out[k] = 0
                    /\ k \notin below => out[k] = skipped[k]
                    /\ (/\ k \notin below
                        /\ ~ap.isCompressorEnabled
                        /\ ~ap.isLimiterEnabled) => out[k] = in[k]
               /\ Cardinality(below) = Len(in) => last'.out[2] = Zeros(Len(last'.out[1])) ]_vars

\* with the threshold at 0 dB (32767.0) a sample of exactly 32767 has passed
\* the gate
C17_Witness ==
    /\ last.op = "ProcessAudio"
    /\ last.err = OK
    /\ mgr.aprsProcessor.isNoiseGateEnabled
    /\ mgr.aprsProcessor.noiseGateThreshold = 0
    /\ ~mgr.aprsProcessor.isCompressorEnabled
    /\ ~mgr.aprsProcessor.isLimiterEnabled
    /\ last.out = <<EncodeSamples(<<Int16Max>>), EncodeSamples(<<Int16Max>>)>>

\* a block whose samples are all below the -40 dB threshold has come out zero
GateSilencedBlock ==
    /\ last.op = "ProcessAudio"
    /\ mgr.aprsProcessor.isNoiseGateEnabled
    /\ mgr.aprsProcessor.noiseGateThreshold = -40
    /\ last.out = <<EncodeSamples(<<100, -200>>), <<0, 0, 0, 0>>>>

\* the samples on entry to the compressor and on exit from it
CompressorEntry(ap, block) ==
    DecodeSamples(ProcessAudio([ap EXCEPT !.isCompressorEnabled = FALSE,
                                          !.isLimiterEnabled = FALSE], block).output)
CompressorExit(ap, block) ==
    DecodeSamples(ProcessAudio([ap EXCEPT !.isLimiterEnabled = FALSE], block).output)

\* r is knee + (|e| - knee)/ratio with the sign of e, clamped to the 16-bit
\* range and truncated toward zero; the knee is 3276.70 whatever the
\* parameters, the ratio is in tenths
IsCompressed(e, r, ratio) ==
    LET num == 327670 * ratio + (Abs(e) * 100 - 327670) * 10
        den == ratio * 100 IN
    /\ (r > 0) = (e > 0)
    /\ (r < 0) = (e < 0)
    /\ IF e > 0 /\ num > Int16Max * den THEN r = Int16Max
       ELSE IF e < 0 /\ num > (-Int16Min) * den THEN r = Int16Min
       ELSE Abs(r) * den <= num /\ num < (Abs(r) + 1) * den

\* C18: with the compressor enabled, a sample at or below the fixed -20 dB
\* knee leaves the compressor unchanged; a sample above it leaves with the
\* same sign and magnitude knee + (|s| - knee)/ratio, clamped to the 16-bit
\* range and truncated; with ratio 4.0 a sample of twice the knee (6553)
\* leaves as knee + knee/4 (4095); the knee does not depend on any settable
\* parameter.
C18_Compressor ==
    [][ (/\ last'.op = "ProcessAudio"
         /\ last'.dir = "processor"
         /\ last'.err = OK
         /\ mgr.aprsProcessor.isCompressorEnabled)
            => \A ap \in {mgr.aprsProcessor} :
               \A entry \in {CompressorEntry(ap, last'.out[1])} :
               \A exit \in {CompressorExit(ap, last'.out[1])} :
               /\ Len(exit) = Len(entry)
               /\ ~ap.isLimiterEnabled => DecodeSamples(last'.out[2]) = exit
               /\ \A k \in 1..Len(entry) :
                    /\ Abs(entry[k]) * 100 <= 327670 => exit[k] = entry[k]
                    /\ Abs(entry[k]) * 100 > 327670 =>
                            IsCompressed(entry[k], exit[k], ap.compressionRatio)
                    /\ (Abs(entry[k]) = 6553 /\ ap.compressionRatio = 40) =>
                            Abs(exit[k]) = 4095 ]_vars

\* with ratio 4.0 a sample of twice the knee has been compressed
C18_Witness ==
    /\ last.op = "ProcessAudio"
    /\ last.err = OK
    /\ mgr.aprsProcessor.isCompressorEnabled
    /\ mgr.aprsProcessor.compressionRatio = 40
    /\ mgr.aprsProcessor.noiseGateThreshold = -40
    /\ last.out = <<EncodeSamples(<<-6553>>), EncodeSamples(<<-4095>>)>>

\* C19: the clipping counter never decreases across a ProcessAudio call or a
\* call of a parameter or enable setter; ResetClippingCount sets it to 0 and
\* changes nothing else of the processor.
C19_ClippingCounter ==
    [][ last'.dir = "processor"
            => \A before \in {mgr.aprsProcessor} :
               \A after \in {mgr'.aprsProcessor} :
               IF last'.op = "ResetClippingCount"
               THEN /\ GetClippingCount(after) = 0
                    /\ [after EXCEPT !.clippingCount = GetClippingCount(before)] = before
               ELSE GetClippingCount(after) >= GetClippingCount(before) ]_vars

\* the counter has been reset after blocks were processed: it is 0 while the
\* levels of the last block and changed parameters are still in place
C19_Witness ==
    /\ last.op = "ResetClippingCount"
    /\ last.dir = "processor"
    /\ GetClippingCount(mgr.aprsProcessor) = 0
    /\ GetPeakLevel(mgr.aprsProcessor) = LevelPeak(23198)
    /\ mgr.aprsProcessor.peakThreshold = -40

\* the counter has grown by two in calls that clipped
ClippingCounted ==
    /\ last.op = "ProcessAudio"
    /\ GetClippingCount(mgr.aprsProcessor) = 2

-----------------------------------------------------------------------------
(* Properties of the capture endpoint's level meter *)

\* C20: GetLevel reports the silence floor -96.0 whenever there is no signal:
\* on a capture endpoint that has not yet processed any block, and after the
\* driver has delivered an all-zero block or a zero-length block to a Running
\* endpoint.
C20_SilenceFloor ==
    /\ [](HasInput /\ last = NoCall => InputGetLevel(input) = LevelFloor)
    /\ [][ \A block \in {Zeros(Len(input.buffer)), <<>>} :
                (/\ last'.op = "dataCallback"
                 /\ last'.dir = "input"
                 /\ InputIsRunning(input)
                 /\ input' = InputDataCallback(input, block).ep)
                    => InputGetLevel(input') = LevelFloor ]_vars

\* a capture endpoint on which nothing has been called yet reports 0.0
C20_Witness ==
    /\ HasInput
    /\ input.variant = "malgo"
    /\ last = NoCall
    /\ InputGetLevel(input) = LevelZero

\* after an all-zero block the level is the floor
SilentBlockMetered ==
    /\ HasInput
    /\ last.op = "dataCallback"
    /\ InputIsRunning(input)
    /\ last.out = Zeros(Len(input.buffer))
    /\ InputGetLevel(input) = LevelFloor

-----------------------------------------------------------------------------
(* Properties of the sample path: level meter, gain stage, forwarding *)

\* the level of a block whose squares are summed without wrap-around
ExactLevel(data) ==
    LET sum == SumAbsSquares(DecodeSamples(data), NumSamples(data)) IN
    IF sum > 0 THEN LevelDb(sum, NumSamples(data)) ELSE LevelFloor

\* C21: the level an endpoint's calculateLevel stores for a block is that of
\* the exact mean square: every squared term is the true product with no
\* 16-bit wrap-around, so the sum is never negative and a block of
\* alternating +/-32767 meters as RMS 32767 (0.0 dB).  On capture the block
\* is the one the driver delivered, on playback the dequeued block after the
\* volume was applied.
C21_ExactMeanSquare ==
    /\ [][ \A block \in SignalBlocks :
               (/\ last'.op = "dataCallback"
                /\ last'.dir = "input"
                /\ InputIsRunning(input)
                /\ input' = InputDataCallback(input, block).ep)
                   => /\ InputGetLevel(input') = ExactLevel(block)
                      /\ InputGetLevel(input').sum >= 0 ]_vars
    /\ [][ (/\ last'.op = "dataCallback"
            /\ last'.dir = "output"
            /\ OutputIsRunning(output)
            /\ OutputGetQueueSize(output) > 0)
               => /\ OutputGetLevel(output') = ExactLevel(pool'[Head(output.queue)])
                  /\ OutputGetLevel(output').sum >= 0 ]_vars

\* an alternating full-scale period has been metered on capture as the sum
\* of squares 1 + 1
C21_Witness ==
    /\ HasInput
    /\ last.op = "dataCallback"
    /\ InputGetLevel(input) = LevelDb(2, 2)
    /\ input.gain = Unity
    /\ input.buffer = EncodeSamples(<<Int16Max, -Int16Max>>)

\* a played period of 182, 182 has been metered as silence: the wrapped sum
\* is negative
NegativeSumMetered ==
    /\ HasOutput
    /\ last.op = "dataCallback"
    /\ output.volume = Unity
    /\ pool[1] = EncodeSamples(<<182, 182>>)
    /\ last.out = pool[1]
    /\ OutputGetLevel(output) = LevelFloor

\* r is s * scalar (scalar in tenths) clamped to the 16-bit range and then
\* truncated toward zero
IsScaled(s, r, scalar) ==
    LET num == s * scalar IN
    IF num > Int16Max * 10 THEN r = Int16Max
    ELSE IF num < Int16Min * 10 THEN r = Int16Min
    ELSE IF num >= 0 THEN r * 10 <= num /\ num < (r + 1) * 10
    ELSE (r - 1) * 10 < num /\ num <= r * 10

\* every sample of the block after is the scaled sample of the block before
AllScaled(before, after, scalar) ==
    \A in \in {DecodeSamples(before)} :
    \A out \in {DecodeSamples(after)} :
        /\ Len(out) = Len(in)
        /\ \A k \in 1..Len(in) : IsScaled(in[k], out[k], scalar)

\* C22: for every sample and every gain in [0.0, 2.0] the resident buffer
\* after a capture callback holds sample * gain clamped to [-32768, 32767]
\* and truncated, and for every volume in [0.0, 1.0] so does the dequeued
\* block after a playback callback (and the driver's frame buffer with it);
\* no result wraps around, and a scalar of exactly 1.0 leaves every sample
\* identical.
C22_GainStage ==
    /\ [][ \A block \in SignalBlocks :
               (/\ last'.op = "dataCallback"
                /\ last'.dir = "input"
                /\ InputIsRunning(input)
                /\ input' = InputDataCallback(input, block).ep)
                   => /\ AllScaled(block, InputGetBuffer(input'), InputGetGain(input))
                      /\ InputGetGain(input) = 10 => InputGetBuffer(input') = block ]_vars
    /\ [][ (/\ last'.op = "dataCallback"
            /\ last'.dir = "output"
            /\ OutputIsRunning(output)
            /\ OutputGetQueueSize(output) > 0)
               => \A id \in {Head(output.queue)} :
                  /\ AllScaled(pool[id], pool'[id], OutputGetVolume(output))
                  /\ last'.out = pool'[id]
                  /\ OutputGetVolume(output) = 10 => pool'[id] = pool[id] ]_vars

\* at gain 2.0 the period 16384, -16385 has been clamped to full scale
C22_Witness ==
    /\ HasInput
    /\ last.op = "dataCallback"
    /\ InputGetGain(input) = GainMax
    /\ InputGetBuffer(input) = EncodeSamples(<<Int16Max, Int16Min>>)

\* at volume 0.5 the played period 32767, -32767 has been halved and truncated
VolumeHalved ==
    /\ HasOutput
    /\ last.op = "dataCallback"
    /\ OutputGetVolume(output) = 5
    /\ last.out = EncodeSamples(<<16383, -16383>>)

\* C23: on a Running capture endpoint each block the driver delivers causes
\* exactly one invocation of the registered consumer, with the resident
\* buffer and that block's frame count; with no consumer registered the block
\* is still copied into the resident buffer (through the gain stage) and the
\* level is still refreshed from it, and nothing is forwarded.
C23_OneCallbackPerBlock ==
    [][ \A block \in SignalBlocks \cup SignalLongBlocks :
            (/\ last'.op = "dataCallback"
             /\ last'.dir = "input"
             /\ InputIsRunning(input)
             /\ input' = InputDataCallback(input, block).ep
             /\ last'.out = ConsumerCalls(input, block,
                                          FrameCount(input.config.Input, block)))
                => /\ input.callback
                       => /\ Len(last'.out) = 1
                          /\ last'.out[1][1] = InputGetBuffer(input')
                          /\ last'.out[1][2] * 2 * input.config.Input.Channels
                                 = Len(block)
                   /\ ~input.callback => last'.out = <<>>
                   /\ AllScaled(SubSeq(block, 1, Len(input.buffer)),
                                InputGetBuffer(input'), InputGetGain(input))
                   /\ input'.level = calculateLevel(block) ]_vars

\* a two-frame period has been forwarded once with frame count 2
C23_Witness ==
    /\ HasInput
    /\ InputIsRunning(input)
    /\ last.op = "dataCallback"
    /\ Len(last.out) = 1
    /\ last.out[1][2] = 2
    /\ last.out[1][1] = InputGetBuffer(input)

\* with no consumer the period 1, -1 has been buffered at gain 0.5 (as 0, 0),
\* metered, and not forwarded
UnforwardedBlockMetered ==
    /\ HasInput
    /\ InputIsRunning(input)
    /\ ~input.callback
    /\ last.op = "dataCallback"
    /\ last.out = <<>>
    /\ InputGetGain(input) = 5
    /\ InputGetBuffer(input) = EncodeSamples(<<0, 0>>)
    /\ input.level = LevelDb(2, 2)

-----------------------------------------------------------------------------
(* Properties of configuration validation *)

\* the conditions a configuration has to meet, one per field
ValidSampleRates(c) == c.Input.SampleRate > 0 /\ c.Output.SampleRate > 0
ValidChannels(c) == c.Input.Channels \in 1..8 /\ c.Output.Channels \in 1..8
ValidBufferSizes(c) == c.Input.BufferSize > 0 /\ c.Output.BufferSize > 0
ValidGain(c) == 0 <= c.Input.Scalar /\ c.Input.Scalar <= 20
ValidVolume(c) == 0 <= c.Output.Scalar /\ c.Output.Scalar <= 10
ValidFormat(c) == c.Processing.Format \in {"int16", "float32"}

\* C24: validateConfig accepts a configuration exactly when both sample
\* rates are above 0, both channel counts are in 1..8, both buffer sizes are
\* above 0, the input gain is in [0.0, 2.0], the output volume is in
\* [0.0, 1.0] and the processing format is int16 or float32; a configuration
\* that violates any one of these is rejected with an error.
C24_ValidateConfig ==
    (last.op = "validateConfig")
        => \A c \in {mgr.config} :
           /\ last.err = OK <=> /\ ValidSampleRates(c)
                                /\ ValidChannels(c)
                                /\ ValidBufferSizes(c)
                                /\ ValidGain(c)
                                /\ ValidVolume(c)
                                /\ ValidFormat(c)
           /\ ~ValidSampleRates(c) => last.err # OK
           /\ ~ValidChannels(c) => last.err # OK
           /\ ~ValidBufferSizes(c) => last.err # OK
           /\ ~ValidGain(c) => last.err # OK
           /\ ~ValidVolume(c) => last.err # OK
           /\ ~ValidFormat(c) => last.err # OK

\* a configuration at the upper ends of every range (8 channels, gain 2.0,
\* volume 1.0, float32) has been accepted
C24_Witness ==
    /\ last.op = "validateConfig"
    /\ last.err = OK
    /\ mgr.config.Input.Channels = 8
    /\ mgr.config.Output.Channels = 8
    /\ mgr.config.Input.Scalar = GainMax
    /\ mgr.config.Output.Scalar = VolumeMax
    /\ mgr.config.Processing.Format = "float32"

\* a configuration whose only violation is a volume of 1.1 has been rejected
SingleViolationRejected ==
    /\ last.op = "validateConfig"
    /\ last.err = ErrOutputVolume
    /\ ValidSampleRates(mgr.config)
    /\ ValidChannels(mgr.config)
    /\ ValidBufferSizes(mgr.config)
    /\ ValidGain(mgr.config)
    /\ ValidFormat(mgr.config)
    /\ mgr.config.Output.Scalar = VolumeMax + 1

-----------------------------------------------------------------------------
(* Properties of the stub endpoints *)

\* an endpoint of the stub variant that holds nothing of a Running one
StubIdle(ep) ==
    ep.variant = "generic" => ~ep.isRunning /\ ep.handles = 0 /\ ep.tasks = 0

\* C25: the stub endpoint variants always fail Start with an error, and a
\* stub endpoint is never Running: it reports false and holds no running
\* flag, driver handle or maintenance task, whatever has been called on it.
C25_StubNeverRuns ==
    /\ [](/\ HasInput => StubIdle(input) /\ (input.variant = "generic" => ~InputIsRunning(input))
          /\ HasOutput => StubIdle(output) /\ (output.variant = "generic" => ~OutputIsRunning(output)))
    /\ [][ /\ (last'.op = "Start" /\ last'.dir = "input" /\ input.variant = "generic")
               => last'.err # OK /\ input' = input
           /\ (last'.op = "Start" /\ last'.dir = "output" /\ output.variant = "generic")
               => last'.err # OK /\ output' = output ]_vars

\* Start has just failed on a stub capture endpoint
C25_Witness ==
    /\ HasInput
    /\ input.variant = "generic"
    /\ last.op = "Start"
    /\ last.err = ErrNotImplemented
    /\ ~InputIsRunning(input)

\* Start has just failed on a stub playback endpoint
StubOutputStartFailed ==
    /\ HasOutput
    /\ output.variant = "generic"
    /\ last.op = "Start"
    /\ last.err = ErrNotImplemented
    /\ ~OutputIsRunning(output)

-----------------------------------------------------------------------------
(* Properties of the maintenance task and of cancellation *)

\* C26: when Stop returns, the maintenance task of the endpoint has
\* terminated: from the return of Stop until the next call no task is live
\* (no task outlives its Stop), and at no time is more than one task live
\* for an endpoint.
C26_StopJoinsTask ==
    /\ HasInput => /\ input.tasks <= 1
                   /\ (last.op = "Stop" /\ last.dir = "input") => input.tasks = 0
    /\ HasOutput => /\ output.tasks <= 1
                    /\ (last.op = "Stop" /\ last.dir = "output") => output.tasks = 0

\* Stop has returned on a capture endpoint, which is Stopped without a driver
\* handle, while its maintenance task has not yet returned
C26_Witness ==
    /\ HasInput
    /\ last.op = "Stop"
    /\ last.err = OK
    /\ ~InputIsRunning(input)
    /\ input.handles = 0
    /\ input.ctx = "done"
    /\ input.tasks = 1

\* the endpoint is Running on a context that has been cancelled
CancelledRunning(ep) == ep.variant # "none" /\ ep.isRunning /\ ep.ctx = "done"

\* no task of the endpoint waits on a cancelled context any longer, or the
\* endpoint has been stopped
TaskGone(ep) == ep.variant = "none" \/ Zombies(ep) = 0 \/ ~ep.isRunning

\* the step is the caller's cancellation of the context of a Running endpoint
IsCancel(ep, next) ==
    /\ ep.variant # "none"
    /\ ep.isRunning
    /\ ep.ctx = "active"
    /\ next.ctx = "done"
    /\ last' = last

\* C27: cancelling the context passed to Start makes the maintenance task
\* terminate eventually, under fair scheduling, and changes neither the
\* endpoint state nor the driver handle: the endpoint stays Running (the
\* cancellation alters nothing but the context), a further Start still
\* fails with AlreadyRunning, and only Stop moves the endpoint to Stopped.
C27_CancelEndsTaskOnly ==
    /\ [][ /\ IsCancel(input, input')
               => input' = [input EXCEPT !.ctx = "done"]
           /\ IsCancel(output, output')
               => output' = [output EXCEPT !.ctx = "done"]
           /\ (last' # last /\ last'.op = "Start" /\ last'.dir = "input"
                  /\ CancelledRunning(input))
               => last'.err = ErrAlreadyRunning /\ input' = input
           /\ (last' # last /\ last'.op = "Start" /\ last'.dir = "output"
                  /\ CancelledRunning(output))
               => last'.err = ErrAlreadyRunning /\ output' = output
           /\ (HasInput /\ input.isRunning /\ ~input'.isRunning)
               => last'.op = "Stop" /\ last'.dir = "input"
           /\ (HasOutput /\ output.isRunning /\ ~output'.isRunning)
               => last'.op = "Stop" /\ last'.dir = "output" ]_vars
    /\ (CancelledRunning(input) /\ Zombies(input) > 0)
           ~> TaskGone(input)
    /\ (CancelledRunning(output) /\ Zombies(output) > 0)
           ~> TaskGone(output)

\* after the cancellation the task has returned, the endpoint is still
\* Running on its driver handle, and a further Start has just been refused
C27_Witness ==
    /\ CancelledRunning(input)
    /\ input.tasks = 0
    /\ input.handles = 1
    /\ InputIsRunning(input)
    /\ last.op = "Start"
    /\ last.err = ErrAlreadyRunning

\* the playback driver has been served a queued block after the cancellation
\* and the return of the task
CancelledOutputStillPlays ==
    /\ CancelledRunning(output)
    /\ output.variant = "malgo"
    /\ output.tasks = 0
    /\ last.op = "dataCallback"
    /\ last.out = pool[1]

-----------------------------------------------------------------------------
(* Properties of the playback endpoint under concurrent callers *)

\* C28: under every interleaving of PlayAudio with Stop, no block is
\* enqueued while the endpoint is Stopped: every step that lengthens the
\* queue is taken on a Running endpoint.
C28_NoEnqueueWhileStopped ==
    [][ Len(output'.queue) > Len(output.queue) => output.isRunning ]_vars

\* PlayAudio has returned nil on an endpoint that Stop had already moved to
\* Stopped, and its block sits in the queue
C28_Witness ==
    /\ threads = IdleThreads
    /\ ~OutputIsRunning(output)
    /\ output.handles = 0
    /\ last.op = "PlayAudio"
    /\ last.err = OK
    /\ OutputGetQueueSize(output) = 1

\* C29: ClearQueue always terminates, under any interleaving with the driver
\* callback: a call in progress leads to its return.  The queue is empty when
\* it returns, and the blocks it removes are discarded (they reach neither
\* the driver nor the caller, and no buffer is altered).
C29_ClearQueueTerminates ==
    /\ (threads.cleaner # "idle") ~> (threads.cleaner = "idle")
    /\ [][ /\ (threads.cleaner = "test" /\ threads'.cleaner = "idle")
               => OutputGetQueueSize(output') = 0
           /\ (threads.cleaner = "receive" /\ threads'.cleaner = "test")
               => /\ output'.queue = Tail(output.queue)
                  /\ pool' = pool
                  /\ last' = last ]_vars

\* ClearQueue has found a block in the queue, the driver callback has taken
\* it, and ClearQueue waits at its receive on the empty channel with no
\* PlayAudio in progress
C29_Witness ==
    /\ threads.cleaner = "receive"
    /\ threads.producer = "idle"
    /\ OutputGetQueueSize(output) = 0
    /\ last.op = "dataCallback"

\* the field is one the endpoint's lock guards
Guarded(a) == a.field \in {"isRunning", "volume", "level"}

\* C30: the running flag, the volume and the level are written only under
\* the exclusive lock and read only under the lock (shared or exclusive), by
\* every code path, the driver callback and PlayAudio included; so no
\* GetLevel or IsRunning in progress overlaps an unlocked write of the field
\* it reads.
C30_LockDiscipline ==
    /\ \A k \in DOMAIN last.out :
         \A a \in {last.out[k]} :
           Guarded(a) => /\ a.mode = "write" => a.lock = "W"
                         /\ a.mode = "read" => a.lock \in {"R", "W"}
    /\ ~(/\ threads.reader = "GetLevel"
         /\ \E k \in DOMAIN last.out :
              last.out[k] = Access("level", "write", "none"))

\* GetLevel holds the read lock while the driver callback has just written
\* the level without any lock
C30_Witness ==
    /\ threads.reader = "GetLevel"
    /\ last.op = "dataCallback"
    /\ \E k \in DOMAIN last.out : last.out[k] = Access("level", "write", "none")

-----------------------------------------------------------------------------
(* Properties of block ownership on the playback path *)

\* C31: playback never aliases a caller's block: when the driver takes an
\* accepted block, the samples it is handed are the samples the caller
\* passed to PlayAudio (the producer's buffers hold PoolInit whenever it
\* offers them) scaled exactly once by the volume in force, even when the
\* same buffer has been enqueued more than once, and no buffer of the caller
\* is modified by the delivery.
C31_NoAliasing ==
    [][ (/\ last'.op = "dataCallback"
         /\ last'.dir = "output"
         /\ OutputIsRunning(output)
         /\ OutputGetQueueSize(output) > 0
         /\ output'.queue = Tail(output.queue))
            => \A id \in {Head(output.queue)} :
               /\ pool' = pool
               /\ \A k \in 1..Len(PoolInit[id]) :
                    k <= Len(last'.out)
                        => last'.out[k] = ScaleBytes(PoolInit[id],
                                                     OutputGetVolume(output))[k] ]_vars

\* the caller's first buffer, offered with the sample 2, holds the sample 1
\* after the driver has taken it at volume 0.5
C31_Witness ==
    /\ HasOutput
    /\ last.op = "dataCallback"
    /\ OutputGetVolume(output) = 5
    /\ PoolInit[1] = EncodeSamples(<<2>>)
    /\ pool[1] = EncodeSamples(<<1>>)

\* the same buffer, enqueued twice, has been scaled twice: the driver was
\* handed the sample 0 for a block offered with the sample 2
ScaledTwice ==
    /\ HasOutput
    /\ last.op = "dataCallback"
    /\ OutputGetVolume(output) = 5
    /\ pool[1] = EncodeSamples(<<0>>)
    /\ OutputGetQueueSize(output) > 0

-----------------------------------------------------------------------------
(* Properties of the order of the dynamics stages *)

\* one sample through the stages that are enabled, in the order gate,
\* compressor; a disabled stage is the identity
GatedSample(ap, s) == IF ap.isNoiseGateEnabled THEN GateSample(ap, s) ELSE s
CompressedSample(ap, s) ==
    IF ap.isCompressorEnabled THEN CompressSample(ap, GatedSample(ap, s))
    ELSE GatedSample(ap, s)
\* and then the limiter
LimitedSample(ap, s) ==
    IF ap.isLimiterEnabled THEN LimitSample(ap, CompressedSample(ap, s))
    ELSE CompressedSample(ap, s)

\* C32: ProcessAudio applies the enabled stages in the fixed order noise
\* gate, compressor, limiter: every sample of a returned block equals
\* limiter(compressor(gate(sample))) with each disabled stage replaced by the
\* identity, and the clipping counter grows by the samples that exceed the
\* ceiling after gate and compressor; with all three stages disabled the
\* output equals the input and the clipping counter is unchanged.
C32_StageOrder ==
    [][ (/\ last'.op = "ProcessAudio"
         /\ last'.dir = "processor"
         /\ last'.err = OK
         /\ last' # last)
            => \A ap \in {mgr.aprsProcessor} :
               \A in \in {DecodeSamples(last'.out[1])} :
               \A out \in {DecodeSamples(last'.out[2])} :
                 /\ Len(out) = Len(in)
                 /\ \A k \in 1..Len(in) : out[k] = LimitedSample(ap, in[k])
                 /\ mgr'.aprsProcessor.clippingCount - ap.clippingCount
                        = IF ap.isLimiterEnabled
                          THEN Cardinality({k \in 1..Len(in) :
                                   Abs(CompressedSample(ap, in[k])) * 100
                                       > Linear(ap.peakThreshold)})
                          ELSE 0
                 /\ (/\ ~ap.isNoiseGateEnabled
                     /\ ~ap.isCompressorEnabled
                     /\ ~ap.isLimiterEnabled)
                        => /\ last'.out[2] = last'.out[1]
                           /\ mgr'.aprsProcessor.clippingCount = ap.clippingCount ]_vars

\* with all three stages enabled, ratio 4.0 and the ceiling at -3 dB, the
\* full-scale period has been compressed to +/-10649 and then passed the
\* limiter unclipped
C32_Witness ==
    /\ last.op = "ProcessAudio"
    /\ last.err = OK
    /\ mgr.aprsProcessor.isNoiseGateEnabled
    /\ mgr.aprsProcessor.isCompressorEnabled
    /\ mgr.aprsProcessor.isLimiterEnabled
    /\ mgr.aprsProcessor.compressionRatio = 40
    /\ mgr.aprsProcessor.peakThreshold = -3
    /\ last.out = <<EncodeSamples(<<Int16Max, -Int16Max>>),
                    EncodeSamples(<<10649, -10649>>)>>

\* with all three stages disabled a full-scale period has come out as it went in
AllStagesDisabled ==
    /\ last.op = "ProcessAudio"
    /\ last.err = OK
    /\ ~mgr.aprsProcessor.isNoiseGateEnabled
    /\ ~mgr.aprsProcessor.isCompressorEnabled
    /\ ~mgr.aprsProcessor.isLimiterEnabled
    /\ last.out = <<EncodeSamples(<<Int16Max, -Int16Max>>),
                    EncodeSamples(<<Int16Max, -Int16Max>>)>>

-----------------------------------------------------------------------------
(* Properties of the metering points *)

\* what the synthetic source writes before its gain is applied
PreGainBuffer(i, sine) == simulateAudioData([i EXCEPT !.gain = Unity], sine).ep.buffer

\* C33: in every endpoint variant the capture level of a block is computed
\* from the block's raw samples, before the gain, while the consumer
\* receives the samples after the gain (the driver-fed variant and the
\* synthetic-source variant alike), and the playback level is computed from
\* the block's samples after the volume.
C33_MeteringPoints ==
    [][ /\ (/\ last'.op = "dataCallback"
            /\ last'.dir = "input"
            /\ InputIsRunning(input))
               => \A s \in CaptureSamples :
                  \A block \in {UniformBlock(Len(input.buffer), s)} :
                    input' = InputDataCallback(input, block).ep
                        => /\ input'.level = calculateLevel(block)
                           /\ input.callback
                                  => last'.out = ScaleBytes(block, InputGetGain(input))
        /\ (/\ last'.op = "simulateAudioData"
            /\ last' # last)
               => \A sine \in SineValues :
                    input' = simulateAudioData(input, sine).ep
                        => /\ input'.level = calculateLevel(PreGainBuffer(input, sine))
                           /\ input.callback => last'.out = input'.buffer
        /\ (/\ last'.op = "dataCallback"
            /\ last'.dir = "output"
            /\ OutputIsRunning(output)
            /\ OutputGetQueueSize(output) > 0
            /\ output'.queue = Tail(output.queue))
               => output'.level
                      = calculateLevel(ScaleBytes(pool[Head(output.queue)],
                                                  OutputGetVolume(output))) ]_vars

\* the synthetic source at gain 0.0 has produced the sample 0 from a sine
\* value of 1 and metered that sample, not the raw 32767
C33_Witness ==
    /\ HasInput
    /\ input.variant = "macos"
    /\ last.op = "simulateAudioData"
    /\ InputGetGain(input) = GainMin
    /\ input.buffer = simulateAudioData(input, 1).ep.buffer
    /\ input.level = calculateLevel(input.buffer)
    /\ input.level # calculateLevel(PreGainBuffer(input, 1))

-----------------------------------------------------------------------------
(* Properties of the stored gain and volume *)

\* C34: in every reachable state of an endpoint, after any sequence of
\* construction, SetGain or SetVolume, UpdateConfig, Start and Stop with
\* arbitrary arguments, the stored gain lies in [0.0, 2.0] and the stored
\* volume lies in [0.0, 1.0].
C34_ScalarsInRange ==
    /\ HasInput => GainMin <= InputGetGain(input) /\ InputGetGain(input) <= GainMax
    /\ HasOutput => VolumeMin <= OutputGetVolume(output)
                        /\ OutputGetVolume(output) <= VolumeMax

\* UpdateConfig has succeeded on a capture endpoint constructed with gain
\* 1.0, which now stores the gain 2.5
C34_Witness ==
    /\ HasInput
    /\ input.variant = "malgo"
    /\ last.op = "UpdateConfig"
    /\ last.err = OK
    /\ InputGetGain(input) = GainMax + 5

\* SetVolume(1.1) has been refused, and the volume 1.5 stored by UpdateConfig
\* is still in place
RefusedSetterKeepsBadVolume ==
    /\ HasOutput
    /\ last.op = "SetVolume"
    /\ last.err = ErrInvalidParameter
    /\ OutputGetVolume(output) = VolumeMax + 5

-----------------------------------------------------------------------------
(* Properties of the processor under concurrent callers *)

\* the dynamics parameters and enable flags of a processor
Params(ap) ==
    <<ap.noiseGateThreshold, ap.compressionRatio, ap.peakThreshold,
      ap.isNoiseGateEnabled, ap.isCompressorEnabled, ap.isLimiterEnabled>>

\* C35: parameters and enable flags can be changed while blocks are being
\* processed, and every ProcessAudio invocation uses one consistent set of
\* them: while a call is between its stages the parameters are those it
\* started with, a setter called meanwhile takes effect only once the call
\* has returned, and the block returned is the one the parameters at the
\* start of the call give for the whole block.
C35_ConsistentParameters ==
    /\ [](threads.pc # "idle" => Params(mgr.aprsProcessor) = Params(threads.entry))
    /\ [][ /\ (threads.setter # SetterIdle /\ threads'.setter = SetterIdle)
               => threads.pc = "idle"
           /\ (threads.pc = "return" /\ threads'.pc = "idle")
               => \A r \in {ProcessAudio(threads.entry, threads.block)} :
                    /\ last'.out = ProcOut(r)
                    /\ Params(mgr'.aprsProcessor) = Params(threads.entry)
                    /\ mgr'.aprsProcessor.clippingCount = r.ap.clippingCount ]_vars

\* EnableCompressor(false) waits for the lock while ProcessAudio, which took
\* the lock with the compressor enabled, is about to run the compressor
C35_Witness ==
    /\ threads.pc = "compressor"
    /\ threads.setter = <<"EnableCompressor", FALSE>>
    /\ threads.entry.isCompressorEnabled
    /\ mgr.aprsProcessor.isCompressorEnabled
    /\ threads.block = EncodeSamples(<<Int16Max, -Int16Max>>)

\* the call has returned the compressed block while the setter still waits
SetterWaitedForBlock ==
    /\ threads.pc = "idle"
    /\ threads.setter = <<"EnableCompressor", FALSE>>
    /\ last.op = "ProcessAudio"
    /\ last.out = <<EncodeSamples(<<Int16Max, -Int16Max>>),
                    EncodeSamples(<<10649, -10649>>)>>

-----------------------------------------------------------------------------
(* Properties of the queue of a Stopped playback endpoint *)

\* C36: while a playback endpoint is Stopped its queue changes only through
\* ClearQueue: Stop, Start, UpdateConfig, PlayAudio and driver frame requests
\* leave the queued blocks of a Stopped endpoint untouched, so the blocks
\* accepted before a Stop are still queued, in order, at the next Start.
C36_StoppedQueueFrozen ==
    [][ (~output.isRunning /\ output'.queue # output.queue)
            => /\ threads.cleaner = "receive"
               /\ threads'.cleaner = "test"
               /\ output'.queue = Tail(output.queue) ]_vars

\* a Stopped endpoint holds two blocks: the one accepted before Stop and one
\* that a PlayAudio begun before Stop has added after it
C36_Witness ==
    /\ ~OutputIsRunning(output)
    /\ output.tasks = 0
    /\ threads.producer = "idle"
    /\ threads.cleaner = "idle"
    /\ last.op = "PlayAudio"
    /\ last.err = OK
    /\ output.queue = <<1, 2>>

-----------------------------------------------------------------------------
(* Properties of the Manager's running flag *)

\* C37: in every state reached through the Manager's operations the
\* manager's running flag equals the input endpoint's running flag, and the
\* output endpoint is Running only if the input endpoint is Running.
C37_RunningFlagsAgree ==
    HasManager =>
        /\ mgr.isRunning = InputIsRunning(input)
        /\ OutputIsRunning(output) => InputIsRunning(input)

\* both endpoints Running under a running manager, then stopped together
C37_Witness ==
    /\ HasManager
    /\ last.op = "Stop"
    /\ last.out = <<"input.Stop", "output.Stop">>
    /\ ~mgr.isRunning
    /\ ~InputIsRunning(input)
    /\ ~OutputIsRunning(output)
    /\ input.tasks + output.tasks > 0

-----------------------------------------------------------------------------
(* Properties of Manager.UpdateConfig *)

\* the manager and both endpoints hold the same config
ConfigsAgree ==
    /\ input.config = mgr.config
    /\ output.config = mgr.config

\* the fields UpdateConfig assigns
InputConfigured(i) == <<i.config, i.gain, i.buffer>>
OutputConfigured(o) == <<o.config, o.volume, o.buffer>>

\* C38: Manager.UpdateConfig is all-or-nothing: on a running manager it fails
\* and leaves the manager's config and both endpoints' config, gain/volume
\* and buffer unchanged; otherwise it succeeds and the manager and both
\* endpoints hold the same new config; no state is reachable in which only
\* some of them were updated.
C38_UpdateConfigAllOrNothing ==
    /\ [](HasManager => ConfigsAgree)
    /\ [][ (last'.op = "UpdateConfig" /\ last'.dir = "manager")
              => IF mgr.isRunning
                   THEN /\ last'.err = ErrInvalidOperation
                        /\ mgr' = mgr
                        /\ InputConfigured(input') = InputConfigured(input)
                        /\ OutputConfigured(output') = OutputConfigured(output)
                   ELSE /\ last'.err = OK
                        /\ mgr'.isRunning = mgr.isRunning
                        /\ \E newConfig \in Configs :
                             /\ mgr'.config = newConfig
                             /\ InputConfigured(input') =
                                  <<newConfig, newConfig.Input.Scalar,
                                    Zeros(BufferBytes(newConfig.Input))>>
                             /\ OutputConfigured(output') =
                                  <<newConfig, newConfig.Output.Scalar,
                                    Zeros(BufferBytes(newConfig.Output))>> ]_vars

\* a manager that was stopped after capturing has replaced CfgA by CfgB in
\* all three places
C38_Witness ==
    /\ HasManager
    /\ last.op = "UpdateConfig"
    /\ last.dir = "manager"
    /\ last.err = OK
    /\ mgr.config = CfgB
    /\ input.config = CfgB
    /\ output.config = CfgB
    /\ InputGetGain(input) = CfgB.Input.Scalar
    /\ OutputGetVolume(output) = CfgB.Output.Scalar
    /\ input.tasks > 0

\* a running manager has refused UpdateConfig
UpdateConfigRefused ==
    /\ HasManager
    /\ mgr.isRunning
    /\ last.op = "UpdateConfig"
    /\ last.dir = "manager"
    /\ last.err = ErrInvalidOperation

-----------------------------------------------------------------------------
(* Properties of the consumer callback of a Stopped capture endpoint *)

\* the step invokes the registered consumer callback: the driver's callback
\* forwards a block, or the synthetic source's task generates one
CallbackInvoked ==
    /\ HasInput
    /\ last'.dir = "input"
    /\ last'.out # <<>>
    /\ \/ /\ input.variant = "malgo"
          /\ last'.op = "dataCallback"
          /\ \E s \in CaptureSamples :
               input' = InputDataCallback(input, UniformBlock(Len(input.buffer), s)).ep
       \/ /\ input.variant = "macos"
          /\ last'.op = "simulateAudioData"
          /\ input.tasks > 0
          /\ input.callback
          /\ \E sine \in SineValues : input' = simulateAudioData(input, sine).ep

\* C39: the capture consumer callback is never invoked while the capture
\* endpoint is Stopped: after Stop has returned, no invocation occurs until
\* the next successful Start, in every capture variant.
C39_NoCallbackWhileStopped ==
    [][ CallbackInvoked => InputIsRunning(input) ]_vars

\* the synthetic source's task, still alive after Stop, has handed a block to
\* the consumer
C39_Witness ==
    /\ HasInput
    /\ input.variant = "macos"
    /\ ~InputIsRunning(input)
    /\ input.ctx = "done"
    /\ input.tasks > 0
    /\ input.callback
    /\ last.op = "simulateAudioData"
    /\ last.out = input.buffer
    /\ last.out # <<>>

-----------------------------------------------------------------------------
(* Properties of repeated processing *)

\* C40: the noise gate and the limiter are idempotent: with only the noise
\* gate or only the limiter enabled and the parameters unchanged,
\* ProcessAudio applied to a block it has returned returns that block
\* unchanged, and the second limiter pass adds 0 to the clipping counter.
C40_GateAndLimiterIdempotent ==
    [][ (/\ last'.op = "ProcessAudio"
         /\ last'.dir = "processor"
         /\ last'.err = OK
         /\ ~mgr.aprsProcessor.isCompressorEnabled
         /\ mgr.aprsProcessor.isNoiseGateEnabled # mgr.aprsProcessor.isLimiterEnabled)
            => \A ap \in {mgr'.aprsProcessor} :
               \A again \in {ProcessAudio(ap, last'.out[2])} :
                 /\ Params(ap) = Params(mgr.aprsProcessor)
                 /\ again.err = OK
                 /\ again.output = last'.out[2]
                 /\ again.ap.clippingCount = ap.clippingCount ]_vars

\* with only the limiter enabled at -3 dB a full-scale period has been
\* clipped to +/-23197 and counted twice
C40_Witness ==
    /\ last.op = "ProcessAudio"
    /\ last.err = OK
    /\ ~mgr.aprsProcessor.isNoiseGateEnabled
    /\ ~mgr.aprsProcessor.isCompressorEnabled
    /\ mgr.aprsProcessor.isLimiterEnabled
    /\ mgr.aprsProcessor.peakThreshold = -3
    /\ mgr.aprsProcessor.clippingCount >= 2
    /\ last.out = <<EncodeSamples(<<Int16Max, -Int16Max>>),
                    EncodeSamples(<<23197, -23197>>)>>

\* with only the gate enabled at 0 dB a block below full scale has been muted
GateMutedBlock ==
    /\ last.op = "ProcessAudio"
    /\ last.err = OK
    /\ mgr.aprsProcessor.isNoiseGateEnabled
    /\ ~mgr.aprsProcessor.isCompressorEnabled
    /\ ~mgr.aprsProcessor.isLimiterEnabled
    /\ mgr.aprsProcessor.noiseGateThreshold = 0
    /\ Len(last.out) = 2
    /\ last.out[1] # last.out[2]
    /\ \A k \in 1..Len(last.out[2]) : last.out[2][k] = 0

=============================================================================
